---------------------------- MODULE Spec2Model ----------------------------
(***************************************************************************)
(* A model of xenterval: exactness-tracked musical intervals               *)
(* (xenterval/interval/__init__.py), the prime registry and factorization  *)
(* (xenterval/_primes.py), monzos and JI subgroups (xenterval/ji.py).      *)
(*                                                                         *)
(* Numbers.  Python's int and Fraction are modelled by normalised pairs    *)
(* <<numerator, denominator>>; an int is the pair with denominator 1.      *)
(* A Python float that measures an interval is modelled in the log domain: *)
(* an integer number of "fine units" of cents (lg) and the sign of the     *)
(* last-bit rounding error (ulp, an infinitesimal).  FinePerGrid fine      *)
(* units make one step of the 1/3600-cent grid; Grain fine units make one  *)
(* unit of the tenth decimal digit of cents.  The true scales (2.8e6       *)
(* grains per grid step, a float range of about 1e3 octaves) are scaled    *)
(* down so that the states fit; their order fine < grain < grid step <     *)
(* cent < octave < float range is kept.  Where IEEE rounding decides an    *)
(* outcome that the log-domain value does not determine (the last bit of a *)
(* product, a floor of a float quotient that is a whole number, a float    *)
(* logarithm that is a whole number of cents) every outcome is allowed.    *)
(***************************************************************************)
EXTENDS Integers, Sequences, FiniteSets, TLC

VARIABLES a, b, out, mz, grp, cf, nm, ix

vars == <<a, b, out, mz, grp, cf, nm, ix>>

---------------------------------------------------------------------------
(* Bounds of the model *)

\* how many primes of KNOWN_PRIMES the model keeps
NumPrimes == 3
\* fine units per step of the 1/3600-cent grid
FinePerGrid == 7
\* fine units per unit of the tenth decimal digit of cents: round(cents, 10)
Grain == 3
\* the float range, in octaves: 2^x overflows above it and underflows below its negative
FloatMaxOct == 8
\* largest size of an exponent of an interval that is multiplied twice
MaxExp == 2

---------------------------------------------------------------------------
(* int and Fraction *)

Abs(n) == IF n < 0 THEN -n ELSE n

RECURSIVE Gcd(_, _)
Gcd(m, n) == IF n = 0 THEN m ELSE Gcd(n, m % n)

\* fractions.Fraction(n, d): lowest terms, positive denominator
Fraction(n, d) ==
    LET g == Gcd(Abs(n), Abs(d))
    IN  IF d < 0 THEN <<(-n) \div g, (-d) \div g>> ELSE <<n \div g, d \div g>>

RZero == <<0, 1>>
ROne == <<1, 1>>
RInt(n) == <<n, 1>>
RAdd(x, y) == Fraction(x[1] * y[2] + y[1] * x[2], x[2] * y[2])
RNeg(x) == <<-x[1], x[2]>>
RMul(x, y) == Fraction(x[1] * y[1], x[2] * y[2])
RDiv(x, y) == Fraction(x[1] * y[2], x[2] * y[1])
RLe(x, y) == x[1] * y[2] <= y[1] * x[2]
RIsInt(x) == x[2] = 1
\* math.floor of a Fraction
RFloor(x) == x[1] \div x[2]
\* the integer nearest to a Fraction
RNearest(x) == (x[1] \div x[2]) + (IF 2 * (x[1] % x[2]) >= x[2] THEN 1 ELSE 0)

\* round(v / g): nearest multiple of g, ties to the even one
RoundParts(q, r, g) ==
    IF 2 * r < g THEN q
    ELSE IF 2 * r > g THEN q + 1
    ELSE IF q % 2 = 0 THEN q ELSE q + 1

RoundDiv(v, g) == RoundParts(v \div g, v % g, g)

---------------------------------------------------------------------------
(* xenterval/_primes.py *)

AllPrimes == <<2, 3, 5, 7, 11, 13, 17, 19, 23, 29, 31, 37>>

KNOWN_PRIMES == SubSeq(AllPrimes, 1, NumPrimes)

PrimeSet == {KNOWN_PRIMES[i] : i \in 1..Len(KNOWN_PRIMES)}

EmptyFact == [p \in {} |-> RZero]

\* one more power of p divides
OneMore(rest) == <<rest[1] + 1, rest[2]>>

\* p_adic_val(n, p) for n > 0: <<d_p(n), n / p ** d_p(n)>>
RECURSIVE p_adic_val(_, _)
p_adic_val(n, p) ==
    IF n % p # 0 THEN <<0, n>> ELSE OneMore(p_adic_val(n \div p, p))

\* entries[p] = exp, whatever exp is
AddEntryAlways(entries, p, exp) == entries @@ (p :> RInt(exp))

\* entries[p] = exp, for a nonzero exp
AddEntry(entries, p, exp) == IF exp # 0 THEN entries @@ (p :> RInt(exp)) ELSE entries

\* the loop of prime_factors over the primes ps, from the i-th one on;
\* pos and neg are the p-adic valuations of numerator and denominator
RECURSIVE PrimeFactorsLoop(_, _, _, _, _)
RECURSIVE PrimeFactorsStep(_, _, _, _, _)
PrimeFactorsStep(ps, i, pos, neg, entries) ==
    IF pos[2] = 1 /\ neg[2] = 1
    THEN [st |-> "ok", fact |-> AddEntry(entries, ps[i], pos[1] - neg[1])]
    ELSE PrimeFactorsLoop(ps, i + 1, pos[2], neg[2],
                          AddEntry(entries, ps[i], pos[1] - neg[1]))

PrimeFactorsLoop(ps, i, n, d, entries) ==
    IF i > Len(ps)
    THEN [st |-> "ValueError", fact |-> EmptyFact]
    ELSE PrimeFactorsStep(ps, i, p_adic_val(n, ps[i]), p_adic_val(d, ps[i]), entries)

PrimeFactorsOver(ps, ratio) ==
    IF ratio[1] = 1 /\ ratio[2] = 1 THEN [st |-> "ok", fact |-> EmptyFact]
    ELSE IF ratio[1] <= 0 THEN [st |-> "ValueError", fact |-> EmptyFact]
    ELSE PrimeFactorsLoop(ps, 1, ratio[1], ratio[2], EmptyFact)

\* prime_factors(ratio) for an int or Fraction ratio
prime_factors(ratio) == PrimeFactorsOver(KNOWN_PRIMES, ratio)

---------------------------------------------------------------------------
(* Scales of the log domain *)

\* MAGIC: steps of the snapping grid per cent (and per unit of ratio)
MAGIC == 3600
\* cents per octave: cents is edx_steps(1200, 2)
CentsPerOctave == 1200

FinePerCent == MAGIC * FinePerGrid

\* log2(p) * 1200 * 3600 to the nearest integer: the size of a prime in grid steps
LogGrid ==
    (2 :> 4320000 @@ 3 :> 6847038 @@ 5 :> 10030729 @@
     7 :> 12127773 @@ 11 :> 14944745 @@ 13 :> 15985900)

\* math.log(p, 2) * 1200 in fine units
LogPrime(p) == LogGrid[p] * FinePerGrid

\* the largest log a float holds, in fine units
FloatMax == FloatMaxOct * CentsPerOctave * FinePerCent

---------------------------------------------------------------------------
(* Interval values: xenterval/interval/__init__.py *)

\* self._fact is a mapping: an exact interval
Exact(f) == [fact |-> f, exact |-> TRUE, lg |-> 0, ulp |-> 0, zero |-> FALSE]

\* self._fact is a float: its log lg, and for lg = 0 the side of 1.0 it lies on
Float(lg, ulp) ==
    [fact |-> EmptyFact, exact |-> FALSE, lg |-> lg,
     ulp |-> IF lg = 0 THEN ulp ELSE 0, zero |-> FALSE]

\* self._fact is the float 0.0
FloatZero == [fact |-> EmptyFact, exact |-> FALSE, lg |-> 0, ulp |-> 0, zero |-> TRUE]

Ok(iv) == [st |-> "ok", iv |-> iv]
Raise(e) == [st |-> e, iv |-> Exact(EmptyFact)]

Get(f, p) == IF p \in DOMAIN f THEN f[p] ELSE RZero

\* the end of __init__ with the zero exponents left in the mapping
KeepZeros(f) == f

\* the end of __init__: zero exponents are removed from a mapping
StripZeros(f) == [p \in {q \in DOMAIN f : f[q] # RZero} |-> f[p]]

InitTail(f) == Exact(StripZeros(f))

\* Interval(factorization=f)
InitFactorization(f) == {Ok(InitTail(f))}

\* float values of ratios: [t |-> "float", lg, ulp], "fzero" (0.0), "finf" (inf),
\* "fnan"; and "rat" for an int or Fraction with value q
\* kept: the float is the _fact of a float interval that came through the
\* ratio path, so that it passes the checks of that path again
FloatVal(lg, ulp) ==
    [q |-> ROne, lg |-> lg, ulp |-> IF lg = 0 THEN ulp ELSE 0, t |-> "float", kept |-> FALSE]
KeptVal(lg, ulp) ==
    [q |-> ROne, lg |-> lg, ulp |-> IF lg = 0 THEN ulp ELSE 0, t |-> "float", kept |-> TRUE]
RatVal(q) == [q |-> q, lg |-> 0, ulp |-> 0, t |-> "rat", kept |-> FALSE]
SpecialVal(t) == [q |-> ROne, lg |-> 0, ulp |-> 0, t |-> t, kept |-> FALSE]

\* the result of prime_factors becomes the factorization, or its exception is raised
InitFromFactors(pf) == IF pf.st = "ok" THEN {Ok(InitTail(pf.fact))} ELSE {Raise(pf.st)}

\* Interval(ratio=r)
InitRatio(r) ==
    IF r.t \in {"fzero", "finf", "fnan"} THEN {Raise("ValueError")}
    ELSE IF r.t = "rat" THEN
        IF r.q[1] <= 0 THEN {Raise("ValueError")} ELSE InitFromFactors(prime_factors(r.q))
    ELSE IF r.lg = 0 /\ r.ulp = 0
        THEN \* the float 1.0 is on the grid: Fraction(3600, 3600)
             InitFromFactors(prime_factors(ROne))
    ELSE IF ~r.kept /\ r.lg # 0 /\ r.lg % FinePerCent = 0
        THEN \* a whole number of cents up to rounding: cents % 1 may be 0,
             \* and then fact is never bound
             {Raise("UnboundLocalError"), Ok(Float(r.lg, r.ulp))}
    ELSE {Ok(Float(r.lg, r.ulp))}

\* the exact cents of the cents path: an int or Fraction, or a float on the grid
ExactCents(c) == IF c.t = "rat" THEN c.q ELSE Fraction(c.lg, FinePerCent)

\* Interval(cents=c): c is [t |-> "rat", q] or [t |-> "float", lg]
InitCents(c) ==
    IF c.t = "rat" \/ c.lg % FinePerGrid = 0
    THEN IF ExactCents(c) # RZero
         THEN {Ok(InitTail(2 :> RDiv(ExactCents(c), RInt(CentsPerOctave))))}
         ELSE {Ok(InitTail(EmptyFact))}
    ELSE \* fact = 2 ** (cents / 1200)
         IF c.lg >= FloatMax THEN {Raise("OverflowError")}
         ELSE IF c.lg <= -FloatMax THEN {Ok(FloatZero)}
         ELSE {Ok(Float(c.lg, 0))}

\* Interval.zero()
Zero == Exact(EmptyFact)

\* e * log(p) for an exponent e, to the nearest fine unit
FactorLog(p, e) ==
    (e[1] \div e[2]) * LogPrime(p) + RNearest(<<(e[1] % e[2]) * LogPrime(p), e[2]>>)

\* sum over the primes of a mapping of exponent * log of the prime, each term
\* to the nearest fine unit
RECURSIVE LogFactFrom(_, _)
LogFactFrom(f, ps) ==
    IF ps = {} THEN 0
    ELSE FactorLog(CHOOSE q \in ps : TRUE, f[CHOOSE q \in ps : TRUE])
         + LogFactFrom(f, ps \ {CHOOSE q \in ps : TRUE})

LogFact(f) == LogFactFrom(f, DOMAIN f)

\* _is_rational: every exponent is a whole number
IsRational(x) == x.exact /\ \A p \in DOMAIN x.fact : RIsInt(x.fact[p])

\* the logs of the single factors p ** d of a mapping
FactorLogs(f) == {FactorLog(p, f[p]) : p \in DOMAIN f}

MaxFactorLog(f) ==
    IF DOMAIN f = {} THEN 0
    ELSE CHOOSE m \in FactorLogs(f) : \A l \in FactorLogs(f) : l <= m

MinFactorLog(f) ==
    IF DOMAIN f = {} THEN 0
    ELSE CHOOSE m \in FactorLogs(f) : \A l \in FactorLogs(f) : m <= l

\* prod(p ** d) for a mapping with a fractional exponent: a product of
\* floats.  A factor too large raises, a factor too small is 0.0, a product
\* too large is inf.
ProdOfPowers(f) ==
    IF MaxFactorLog(f) >= FloatMax THEN SpecialVal("OverflowError")
    ELSE IF MinFactorLog(f) <= -FloatMax THEN SpecialVal("fzero")
    ELSE IF LogFact(f) >= FloatMax THEN SpecialVal("finf")
    ELSE IF LogFact(f) <= -FloatMax THEN SpecialVal("fzero")
    ELSE FloatVal(LogFact(f), 0)

\* Interval.ratio.  An exact ratio is kept as its log (t = "rat"): an int or
\* Fraction, positive and of any size.
Ratio(x) ==
    IF ~x.exact THEN IF x.zero THEN SpecialVal("fzero") ELSE KeptVal(x.lg, x.ulp)
    ELSE IF IsRational(x)
        THEN [q |-> ROne, lg |-> LogFact(x.fact), ulp |-> 0, t |-> "rat", kept |-> FALSE]
    ELSE ProdOfPowers(x.fact)

\* the sign of ratio - 1 for a ratio that is a number
RatioSign(r) ==
    IF r.t = "fzero" THEN -1
    ELSE IF r.t = "finf" THEN 1
    ELSE IF r.lg # 0 THEN (IF r.lg < 0 THEN -1 ELSE 1)
    ELSE r.ulp

\* math.log of a positive int or Fraction, in fine units (any prime of the table)
LogRat(q) == LogFact(PrimeFactorsOver(AllPrimes, q).fact)

None == [some |-> FALSE, k |-> RZero]
Some(k) == [some |-> TRUE, k |-> k]

\* the end of _is_multiple_of, given the list of exponent multipliers
MultiplierOf(x, ratio_fact, exp_multipliers) ==
    IF Cardinality(exp_multipliers) > 1 THEN None
    ELSE IF ~(DOMAIN x.fact \subseteq DOMAIN ratio_fact) THEN None
    ELSE IF exp_multipliers = {} THEN Some(RZero)
    ELSE Some(CHOOSE m \in exp_multipliers : TRUE)

\* _is_multiple_of, given the factorization of the ratio
IsMultipleOfFact(x, ratio_fact) ==
    IF ~x.exact THEN None
    ELSE MultiplierOf(x, ratio_fact,
                      {RDiv(Get(x.fact, p), ratio_fact[p]) : p \in DOMAIN ratio_fact})

\* a number of steps: exact (t = "rat", value q), or the float
\* log(ratio, period) * divisions, kept as lgx / lgp * n (t = "float"), or the
\* exception raised, or the float inf (t = "inf")
StepsExact(q) == [n |-> ROne, q |-> q, t |-> "rat", lgx |-> 0, lgp |-> 1]
StepsFloat(lgx, lgp, n) == [n |-> n, q |-> RZero, t |-> "float", lgx |-> lgx, lgp |-> lgp]
StepsRaise(e) == [n |-> ROne, q |-> RZero, t |-> e, lgx |-> 0, lgp |-> 1]

\* log(r, period) * divisions for the ratio r of an interval
LogOfRatio(r, divisions, period) ==
    IF r.t = "OverflowError" THEN StepsRaise("OverflowError")
    ELSE IF r.t = "fzero" \/ period[1] <= 0 THEN StepsRaise("ValueError")
    ELSE IF period = ROne THEN StepsRaise("ZeroDivisionError")
    ELSE IF r.t = "finf" THEN StepsRaise("inf")
    ELSE StepsFloat(r.lg, LogRat(period), divisions)

\* the fallback of edx_steps: log(self.ratio, period) * divisions
LogSteps(x, divisions, period) == LogOfRatio(Ratio(x), divisions, period)

\* the exact steps if there are any, the fallback otherwise
ExactOrLog(x, divisions, period, exact_steps) ==
    IF exact_steps.some THEN StepsExact(RMul(exact_steps.k, divisions))
    ELSE LogSteps(x, divisions, period)

\* edx_steps, given the outcome of prime_factors(period) in _is_multiple_of
StepsByFactors(x, divisions, period, pf) ==
    IF ~x.exact THEN LogSteps(x, divisions, period)
    ELSE IF pf.st # "ok" THEN StepsRaise(pf.st)
    ELSE ExactOrLog(x, divisions, period, IsMultipleOfFact(x, pf.fact))

\* edx_steps for an int or Fraction number of divisions and period
edx_steps(x, divisions, period) ==
    StepsByFactors(x, divisions, period, prime_factors(period))

\* Interval.cents
cents(x) == edx_steps(x, RInt(CentsPerOctave), RInt(2))

\* float(self.cents) in fine units, for cents that is a number
FineCents(c) ==
    IF c.t = "rat" THEN RNearest(<<c.q[1] * FinePerCent, c.q[2]>>) ELSE c.lgx

\* round(float(c), 10) for cents c, in units of the tenth digit
CoarseOf(c) ==
    IF c.t \in {"rat", "float"}
    THEN [v |-> RoundDiv(FineCents(c), Grain), st |-> "ok"]
    ELSE [v |-> 0, st |-> c.t]

\* _coarse_cents
coarse_cents(x) == CoarseOf(cents(x))

\* 0 if not diff else (-1 if diff < 0 else 1)
SignOf(diff) == IF diff = 0 THEN 0 ELSE IF diff < 0 THEN -1 ELSE 1

\* compare, given the two _coarse_cents: one that raises ends the call, and
\* with an infinite one the difference is inf, -inf or nan
CompareCoarse(cx, cy) ==
    IF cx.st \notin {"ok", "inf"} THEN [q |-> 0, st |-> cx.st]
    ELSE IF cy.st \notin {"ok", "inf"} THEN [q |-> 0, st |-> cy.st]
    ELSE IF cx.st = "inf" THEN [q |-> 1, st |-> "ok"]
    ELSE IF cy.st = "inf" THEN [q |-> -1, st |-> "ok"]
    ELSE [q |-> SignOf(cx.v - cy.v), st |-> "ok"]

\* compare
compare(x, y) == CompareCoarse(coarse_cents(x), coarse_cents(y))

\* hash of a float: a function of its value
HashFloat(v) == v

\* hash(self._coarse_cents), given _coarse_cents
HashCoarse(cx) ==
    IF cx.st = "ok" THEN [st |-> "ok", h |-> HashFloat(cx.v)]
    ELSE IF cx.st = "inf" THEN [st |-> "ok", h |-> HashFloat(FloatMax)]
    ELSE [st |-> cx.st, h |-> 0]

\* __hash__
Hash(x) == HashCoarse(coarse_cents(x))

---------------------------------------------------------------------------
(* Interval arithmetic *)

ValOk(r) == [r |-> r, st |-> "ok"]
ValRaise(e) == [r |-> SpecialVal("fnan"), st |-> e]

\* float(q) for the exact ratio of an interval: too large raises, too small is 0.0
RatToFloat(r) ==
    IF r.t # "rat" THEN ValOk(r)
    ELSE IF r.lg >= FloatMax THEN ValRaise("OverflowError")
    ELSE IF r.lg <= -FloatMax THEN ValOk(SpecialVal("fzero"))
    ELSE ValOk(FloatVal(r.lg, 0))

\* r1 * r2 for two floats
FloatTimes(r1, r2) ==
    IF r1.t = "fnan" \/ r2.t = "fnan" THEN {ValOk(SpecialVal("fnan"))}
    ELSE IF r1.t = "fzero" \/ r2.t = "fzero"
        THEN IF r1.t = "finf" \/ r2.t = "finf"
             THEN {ValOk(SpecialVal("fnan"))} ELSE {ValOk(SpecialVal("fzero"))}
    ELSE IF r1.t = "finf" \/ r2.t = "finf" THEN {ValOk(SpecialVal("finf"))}
    ELSE LET lg == r1.lg + r2.lg
         IN  IF lg >= FloatMax THEN {ValOk(SpecialVal("finf"))}
             ELSE IF lg <= -FloatMax THEN {ValOk(SpecialVal("fzero"))}
             ELSE IF lg # 0 THEN {ValOk(FloatVal(lg, 0))}
             ELSE {ValOk(FloatVal(0, u)) : u \in {-1, 0, 1}}

\* fx * fy, given the two conversions to float
ProductOfFloats(fx, fy) ==
    IF fx.st # "ok" THEN {fx}
    ELSE IF fy.st # "ok" THEN {fy}
    ELSE FloatTimes(fx.r, fy.r)

\* rx * ry for the ratios of x and y: an int 1 leaves the other as it is, and
\* an int or Fraction is converted to float first
ProductOfRatios(x, y, rx, ry) ==
    IF rx.t = "OverflowError" \/ ry.t = "OverflowError" THEN {ValRaise("OverflowError")}
    ELSE IF rx.t = "rat" /\ x.fact = EmptyFact THEN {ValOk(ry)}
    ELSE IF ry.t = "rat" /\ y.fact = EmptyFact THEN {ValOk(rx)}
    ELSE ProductOfFloats(RatToFloat(rx), RatToFloat(ry))

\* self.ratio * other.ratio where at least one of the two is a float
RatioProduct(x, y) == ProductOfRatios(x, y, Ratio(x), Ratio(y))

\* Interval(ratio=v) for each outcome v of a float computation
InitRatioOf(vs) ==
    UNION {IF v.st = "ok" THEN InitRatio(v.r) ELSE {Raise(v.st)} : v \in vs}

\* stack reading the exponents at the primes of self only
StackOverSelf(x, y) ==
    IF x.exact /\ y.exact
    THEN InitFactorization([p \in DOMAIN x.fact |-> RAdd(Get(x.fact, p), Get(y.fact, p))])
    ELSE InitRatioOf(RatioProduct(x, y))

\* stack(self, other) for two intervals
stack(x, y) ==
    IF x.exact /\ y.exact
    THEN InitFactorization([p \in DOMAIN x.fact \cup DOMAIN y.fact |->
                               RAdd(Get(x.fact, p), Get(y.fact, p))])
    ELSE InitRatioOf(RatioProduct(x, y))

\* a scalar: an int or Fraction (fl = FALSE) or a float (fl = TRUE) of value q
Scalar(q) == [q |-> q, fl |-> FALSE]
FloatScalar(q) == [q |-> q, fl |-> TRUE]

Sgn(n) == IF n < 0 THEN -1 ELSE IF n > 0 THEN 1 ELSE 0

\* a log brought into the float range
Clamp(v) == IF v >= FloatMax THEN FloatMax ELSE IF v <= -FloatMax THEN -FloatMax ELSE v

\* (q * k[2] + r) * k to the nearest fine unit
ScaleParts(q, r, k) ==
    IF Abs(q) > FloatMax \div Abs(k[1]) + 1
    THEN Sgn(q) * Sgn(k[1]) * FloatMax
    ELSE Clamp(q * k[1] + RNearest(<<r * k[1], k[2]>>))

\* lg * k to the nearest fine unit, for k # 0; beyond the float range the
\* result is FloatMax or -FloatMax
ScaleLog(lg, k) == ScaleParts(lg \div k[2], lg % k[2], k)

\* the float of log lg that a power is
PowerOfLog(lg) ==
    IF lg >= FloatMax THEN {ValRaise("OverflowError")}
    ELSE IF lg <= -FloatMax THEN {ValOk(SpecialVal("fzero"))}
    ELSE IF lg = 0 THEN {ValOk(FloatVal(0, u)) : u \in {-1, 0, 1}}
    ELSE {ValOk(FloatVal(lg, 0))}

\* r ** k for a float r and a scalar of value k
FloatPower(r, k) ==
    IF r.t = "fnan" THEN {ValOk(IF k = RZero THEN FloatVal(0, 0) ELSE r)}
    ELSE IF k = RZero THEN {ValOk(FloatVal(0, 0))}
    ELSE IF r.t = "fzero"
        THEN IF k[1] < 0 THEN {ValRaise("ZeroDivisionError")} ELSE {ValOk(r)}
    ELSE IF r.t = "finf"
        THEN IF k[1] < 0 THEN {ValOk(SpecialVal("fzero"))} ELSE {ValOk(r)}
    ELSE IF k = ROne THEN {ValOk(r)}
    ELSE IF r.lg = 0
        THEN IF RIsInt(k) THEN {ValOk(FloatVal(0, r.ulp * Sgn(k[1])))}
             ELSE {ValOk(FloatVal(0, r.ulp * Sgn(k[1]))), ValOk(FloatVal(0, 0))}
    ELSE PowerOfLog(ScaleLog(r.lg, k))

\* fx ** k, given the conversion of the ratio to float
PowerOfFloat(fx, k) == IF fx.st # "ok" THEN {fx} ELSE FloatPower(fx.r, k)

\* rx ** k for the ratio rx of an interval
PowerOfRatio(rx, k) ==
    IF rx.t = "OverflowError" THEN {ValRaise("OverflowError")}
    ELSE PowerOfFloat(RatToFloat(rx), k)

\* self.ratio ** other
RatioPower(x, k) == PowerOfRatio(Ratio(x), k.q)

\* multiply adding the scalar to each exponent of an exact interval
MultiplyAdding(x, k) ==
    IF x.exact /\ ~k.fl
    THEN InitFactorization([p \in DOMAIN x.fact |-> RAdd(x.fact[p], k.q)])
    ELSE InitRatioOf(RatioPower(x, k))

\* multiply(self, other) for a scalar
multiply(x, k) ==
    IF x.exact /\ ~k.fl
    THEN InitFactorization([p \in DOMAIN x.fact |-> RMul(x.fact[p], k.q)])
    ELSE InitRatioOf(RatioPower(x, k))

\* the inverse property
inverse(x) == multiply(x, Scalar(RInt(-1)))

---------------------------------------------------------------------------
(* Interval.divmod *)

DivOk(q, r) == [q |-> q, r |-> r, st |-> "ok"]
DivRaise(e) == [q |-> 0, r |-> Zero, st |-> e]

\* floor(n / d) for two float cents in fine units: a quotient that is a
\* whole number k in the log domain comes out as k or as k - 1, by the
\* rounding of the two logarithms
FloatFloor(n, d) ==
    IF n = 0 THEN {[q |-> 0, st |-> "ok"]}
    ELSE IF n % d = 0
        THEN {[q |-> n \div d, st |-> "ok"], [q |-> (n \div d) - 1, st |-> "ok"]}
    ELSE {[q |-> n \div d, st |-> "ok"]}

\* floor(self.cents // period.cents), the period's cents being positive.
\* Two exact cents divide exactly.
FloorQuot(cs, cp) ==
    IF cs.t \notin {"rat", "float"}
    THEN \* floor(inf // c) is floor(nan)
         {[q |-> 0, st |-> IF cs.t = "inf" THEN "ValueError" ELSE cs.t]}
    ELSE IF cp.t \notin {"rat", "float"}
    THEN \* c // inf is 0.0 or -1.0
         {[q |-> IF cp.t = "inf" /\ FineCents(cs) < 0 THEN -1 ELSE 0,
           st |-> IF cp.t = "inf" THEN "ok" ELSE cp.t]}
    ELSE IF cs.t = "rat" /\ cp.t = "rat"
        THEN {[q |-> RFloor(RDiv(cs.q, cp.q)), st |-> "ok"]}
    ELSE FloatFloor(FineCents(cs), FineCents(cp))

\* the assertion and the return, given rem.ratio and rem.compare(period)
DivAssert(quot, rem, upwards, r, c) ==
    IF r.t = "OverflowError" THEN {DivRaise("OverflowError")}
    ELSE IF RatioSign(r) < 0 THEN {DivRaise("AssertionError")}
    ELSE IF c.st # "ok" THEN {DivRaise(c.st)}
    ELSE IF ~(c.q < 0) THEN {DivRaise("AssertionError")}
    ELSE IF upwards THEN {DivOk(quot, rem)}
    ELSE {IF o.st = "ok" THEN DivOk(quot, o.iv) ELSE DivRaise(o.st) : o \in inverse(rem)}

DivReturn(quot, rem, period, upwards) ==
    DivAssert(quot, rem, upwards, Ratio(rem), compare(rem, period))

\* rem += period, or rem -= period: each outcome goes on to the assertion
DivAdjust(quot, rems, period, upwards) ==
    UNION {IF o.st = "ok" THEN DivReturn(quot, o.iv, period, upwards)
           ELSE {DivRaise(o.st)} : o \in rems}

\* rem - period
Minus(x, y) == UNION {IF o.st = "ok" THEN stack(x, o.iv) ELSE {o} : o \in inverse(y)}

\* rem + period when add, rem - period otherwise
Plus(add, x, y) == IF add THEN stack(x, y) ELSE Minus(x, y)

\* the protection from floating-point inaccuracies, given rem.ratio and
\* rem.compare(period): rem += period and quot += 1, or rem -= period and
\* quot -= 1, or nothing
DivProtect(quot, rem, period, upwards, r, c) ==
    IF r.t = "OverflowError" THEN {DivRaise("OverflowError")}
    ELSE IF RatioSign(r) >= 0 /\ c.st # "ok" THEN {DivRaise(c.st)}
    ELSE IF RatioSign(r) < 0 \/ c.q >= 0
        THEN DivAdjust(IF RatioSign(r) < 0 THEN quot + 1 ELSE quot - 1,
                       Plus(RatioSign(r) < 0, rem, period), period, upwards)
    ELSE DivReturn(quot, rem, period, upwards)

DivRenormalise(quot, rem, period, upwards) ==
    DivProtect(quot, rem, period, upwards, Ratio(rem), compare(rem, period))

\* rem = self - prod for each outcome prod of period * quot
RemsOf(self, prods) ==
    UNION {IF o.st = "ok" THEN Minus(self, o.iv) ELSE {o} : o \in prods}

\* the rest of divmod for each outcome of rem
DivRenormaliseAll(quot, rems, period, upwards) ==
    UNION {IF o.st = "ok" THEN DivRenormalise(quot, o.iv, period, upwards)
           ELSE {DivRaise(o.st)} : o \in rems}

\* rem = self - period * quot, then the rest
DivRemainder(self, period, quot, upwards) ==
    DivRenormaliseAll(quot, RemsOf(self, multiply(period, Scalar(RInt(quot)))),
                      period, upwards)

\* floor(self.cents // period.cents): a float divided by itself is 1.0
FloorQuotOf(self, period) ==
    IF self = period /\ cents(self).t = "float" THEN {[q |-> 1, st |-> "ok"]}
    ELSE FloorQuot(cents(self), cents(period))

\* divmod once the period goes upwards
DivUpwards(self, period, upwards) ==
    UNION {IF k.st = "ok" THEN DivRemainder(self, period, k.q, upwards)
           ELSE {DivRaise(k.st)}
           : k \in FloorQuotOf(self, period)}

\* self and period as they are (upwards), or both inverted: [st, self, period, upwards]
Oriented(self, period, down) ==
    IF ~down THEN {[st |-> "ok", period |-> period, upwards |-> TRUE, self |-> self]}
    ELSE {IF s.st # "ok" THEN [st |-> s.st, period |-> Zero, upwards |-> FALSE, self |-> Zero]
          ELSE IF p.st # "ok"
              THEN [st |-> p.st, period |-> Zero, upwards |-> FALSE, self |-> Zero]
          ELSE [st |-> "ok", period |-> p.iv, upwards |-> FALSE, self |-> s.iv]
          : s \in inverse(self), p \in inverse(period)}

\* divmod, given period.ratio
DivStart(self, period, pr) ==
    IF pr.t = "OverflowError" THEN {DivRaise("OverflowError")}
    ELSE IF pr.t = "rat" /\ period.fact = EmptyFact THEN {DivRaise("ZeroDivisionError")}
    ELSE UNION {IF o.st = "ok" THEN DivUpwards(o.self, o.period, o.upwards)
                ELSE {DivRaise(o.st)} : o \in Oriented(self, period, RatioSign(pr) < 0)}

\* divmod(self, period); the period is not a float within rounding of 1.0
divmod(self, period) == DivStart(self, period, Ratio(period))

---------------------------------------------------------------------------
(* Calls of a session *)

\* x.multiply(k).multiply(k2)
MultiplyTwice(x, k, k2) ==
    UNION {IF o.st = "ok" THEN multiply(o.iv, k2) ELSE {o} : o \in multiply(x, k)}

\* x.stack(x.inverse)
StackInverse(x) ==
    UNION {IF o.st = "ok" THEN stack(x, o.iv) ELSE {o} : o \in inverse(x)}

---------------------------------------------------------------------------
(* A session with the Interval class: two intervals a and b are constructed, *)
(* and calls are made on them; out records the last call, its scalar         *)
(* arguments and its result.  The operands of a recorded call are a and b.   *)

NoSteps == StepsExact(RZero)

NoScalar == Scalar(RZero)

Out(op, st, k, k2, iv, q, val, h) ==
    [q |-> q, st |-> st, iv |-> iv, k |-> k, h |-> h, k2 |-> k2, op |-> op, val |-> val]

LastPrime == KNOWN_PRIMES[Len(KNOWN_PRIMES)]

\* a prime beyond the registry
LargePrime == AllPrimes[NumPrimes + 1]

\* factorization= arguments
FactInputs ==
    { EmptyFact,
      2 :> RInt(1),
      2 :> RInt(-1) @@ 3 :> RInt(1),
      2 :> RInt(1) @@ 3 :> RInt(-1),
      2 :> RZero @@ 3 :> RInt(2),
      3 :> Fraction(1, 2),
      LastPrime :> RInt(1) }

Cents700 == 700 * FinePerCent

\* cents= arguments: ints, Fractions and floats on and off the 1/3600 grid,
\* within the float range of 2 ** (cents / 1200) and beyond it
CentsInputs ==
    { [q |-> RZero, lg |-> 0, t |-> "rat"],
      [q |-> RInt(700), lg |-> 0, t |-> "rat"],
      [q |-> RInt(-400), lg |-> 0, t |-> "rat"],
      [q |-> RInt(-(2 * FloatMaxOct + 1) * 600), lg |-> 0, t |-> "rat"],
      [q |-> RZero, lg |-> Cents700, t |-> "float"],
      [q |-> RZero, lg |-> Cents700 - 1, t |-> "float"],
      [q |-> RZero, lg |-> Cents700 + 1, t |-> "float"],
      [q |-> RZero, lg |-> -1, t |-> "float"],
      [q |-> RZero, lg |-> FloatMax + 1, t |-> "float"],
      [q |-> RZero, lg |-> -FloatMax - 1, t |-> "float"] }

\* ratio= arguments: ints and Fractions (a float on the grid is snapped to
\* one), floats off the grid, and the floats that are no ratio
RatioInputs ==
    { RatVal(Fraction(3, 2)), RatVal(RInt(2)), RatVal(Fraction(4, 9)),
      RatVal(RZero), RatVal(RInt(-3)), RatVal(RInt(LargePrime)),
      FloatVal(Cents700, 0), FloatVal(LogRat(Fraction(3, 2)) + 1, 0),
      SpecialVal("fnan"), SpecialVal("finf"), SpecialVal("fzero") }

\* int and Fraction scalars of multiply, and all its scalars
RatScalars ==
    { Scalar(RInt(-1)), Scalar(RZero), Scalar(Fraction(1, 2)), Scalar(RInt(2)),
      Scalar(RInt(3)) }

Scalars == RatScalars \cup {FloatScalar(Fraction(1, 2))}

\* divisions and periods of edx_steps
Divisions == {RInt(1), RInt(12), Fraction(5, 2)}
Periods == {RInt(2), RInt(3), Fraction(3, 2), Fraction(1, 2), ROne, RInt(LargePrime)}

\* the exponents of an interval are at most MaxExp in size
Bounded(iv) ==
    \A p \in DOMAIN iv.fact : Abs(iv.fact[p][1]) <= MaxExp * iv.fact[p][2]

\* a float within rounding of 1.0
NearUnison(iv) == ~iv.exact /\ ~iv.zero /\ iv.lg = 0

Init ==
    /\ a = Zero
    /\ b = Zero
    /\ out = Out("none", "ok", NoScalar, NoScalar, Zero, 0, NoSteps, <<0, 0>>)
    /\ mz = <<>>
    /\ grp = <<>>
    /\ cf = <<>>
    /\ nm = <<>>
    /\ ix = <<>>

\* a constructor call; its result, if any, becomes a or b
Construct(op, arg, outcomes) ==
    \E o \in outcomes, toA \in BOOLEAN :
        /\ out' = Out(op, o.st, NoScalar, NoScalar, o.iv, 0, arg, <<0, 0>>)
        /\ IF o.st # "ok" THEN UNCHANGED <<a, b>>
           ELSE IF toA THEN a' = o.iv /\ b' = b
           ELSE b' = o.iv /\ a' = a
        /\ UNCHANGED <<mz, grp, cf, nm, ix>>

NewFromFactorization ==
    \E f \in FactInputs :
        Construct("factorization", NoSteps, InitFactorization(f))

NewFromCents ==
    \E c \in CentsInputs :
        Construct("cents", StepsFloat(c.lg, 1, c.q), InitCents(c))

NewFromRatio ==
    \E r \in RatioInputs :
        Construct("ratio", StepsFloat(r.lg, 1, r.q), InitRatio(r))

\* a call that returns an interval or raises
Call(op, k, k2, outcomes) ==
    /\ \E o \in outcomes :
        out' = Out(op, o.st, k, k2, o.iv, 0, NoSteps, <<0, 0>>)
    /\ UNCHANGED <<a, b, mz, grp, cf, nm, ix>>

DoStack == Call("stack", NoScalar, NoScalar, stack(a, b))

DoMultiply == \E k \in Scalars : Call("multiply", k, NoScalar, multiply(a, k))

DoInverse == Call("inverse", NoScalar, NoScalar, inverse(a))

DoMultiplyTwice ==
    /\ Bounded(a)
    /\ \E k \in RatScalars, k2 \in RatScalars :
        Call("multiply_twice", k, k2, MultiplyTwice(a, k, k2))

DoStackInverse == Call("stack_inverse", NoScalar, NoScalar, StackInverse(a))

DoDivmod ==
    /\ ~NearUnison(b)
    /\ \E o \in divmod(a, b) :
        out' = Out("divmod", o.st, NoScalar, NoScalar, o.r, o.q, NoSteps, <<0, 0>>)
    /\ UNCHANGED <<a, b, mz, grp, cf, nm, ix>>

\* a.compare(b), then hash(a) and hash(b)
Compared(c, ha, hb) ==
    Out("compare", IF c.st # "ok" THEN c.st ELSE IF ha.st # "ok" THEN ha.st ELSE hb.st,
        NoScalar, NoScalar, Zero, c.q, NoSteps, <<ha.h, hb.h>>)

DoCompare ==
    /\ out' = Compared(compare(a, b), Hash(a), Hash(b))
    /\ UNCHANGED <<a, b, mz, grp, cf, nm, ix>>

DoEdxSteps ==
    \E n \in Divisions, P \in Periods :
        /\ out' = Out("edx_steps", "ok", Scalar(n), Scalar(P), Zero, 0,
                      edx_steps(a, n, P), <<0, 0>>)
        /\ UNCHANGED <<a, b, mz, grp, cf, nm, ix>>

Next ==
    \/ NewFromFactorization
    \/ NewFromCents
    \/ NewFromRatio
    \/ DoStack
    \/ DoMultiply
    \/ DoInverse
    \/ DoMultiplyTwice
    \/ DoStackInverse
    \/ DoDivmod
    \/ DoCompare
    \/ DoEdxSteps

Spec == Init /\ [][Next]_vars

---------------------------------------------------------------------------
(* Properties of the Interval session *)

\* x == y: compare returns 0
Same(x, y) == compare(x, y) = [q |-> 0, st |-> "ok"]

\* period.multiply(quot).stack(rem)
Restack(period, quot, rem) ==
    UNION {IF m.st = "ok" THEN stack(m.iv, rem) ELSE {m}
           : m \in multiply(period, Scalar(RInt(quot)))}

\* C1: whenever divmod(x, p) returns (q, r), p.multiply(q).stack(r) == x, on
\* every path through divmod, the re-normalisation branches included.
C1_DivmodIdentity ==
    out.op = "divmod" /\ out.st = "ok" =>
        \A s \in Restack(b, out.q, out.iv) : s.st = "ok" /\ Same(s.iv, a)

\* the log of a ratio that is a number: below every float for 0.0, above for inf
LogOfRatio2(r) ==
    IF r.t = "fzero" THEN -FloatMax ELSE IF r.t = "finf" THEN FloatMax ELSE r.lg

\* 1 <= r.ratio < p.ratio for an ascending period p, p.ratio < r.ratio <= 1
\* for a descending one
RemainderInRange(r, p) ==
    IF RatioSign(Ratio(p)) > 0
    THEN RatioSign(Ratio(r)) >= 0 /\ LogOfRatio2(Ratio(r)) < LogOfRatio2(Ratio(p))
    ELSE RatioSign(Ratio(r)) <= 0 /\ LogOfRatio2(Ratio(p)) < LogOfRatio2(Ratio(r))

\* C2: the assertion at the end of divmod never fails, and the remainder that
\* divmod(x, p) returns lies between unison (included) and p (excluded).
C2_RemainderBounds ==
    out.op = "divmod" =>
        /\ out.st # "AssertionError"
        /\ out.st = "ok" => RemainderInRange(out.iv, b)

\* C3 as stated: x.multiply(k).multiply(k2) == x.multiply(k + k2) for every
\* interval x and rational scalars k and k2.
C3_MultiplyTwiceAdds ==
    out.op = "multiply_twice" =>
        /\ out.st = "ok"
        /\ \A s \in multiply(a, Scalar(RAdd(out.k.q, out.k2.q))) :
               s.st = "ok" /\ Same(out.iv, s.iv)

\* C3 amended: for every exact interval x and rational scalars k and k2,
\* x.multiply(k).multiply(k2) is exact, each exponent of x scaled by k * k2 and
\* the zero exponents dropped: it is x.multiply(k * k2).
C3_MultiplyTwiceMultiplies ==
    out.op = "multiply_twice" /\ a.exact =>
        /\ out.st = "ok" /\ out.iv.exact
        /\ \A p \in DOMAIN a.fact \cup DOMAIN out.iv.fact :
               Get(out.iv.fact, p) = RMul(a.fact[p], RMul(out.k.q, out.k2.q))
        /\ \A p \in DOMAIN out.iv.fact : out.iv.fact[p] # RZero
        /\ Ok(out.iv) \in multiply(a, Scalar(RMul(out.k.q, out.k2.q)))

\* an exact interval was doubled and then tripled: the result has its exponents
\* times 6, which x.multiply(5) has not
C3_Witness ==
    /\ out.op = "multiply_twice" /\ out.st = "ok"
    /\ a.exact /\ a.fact # EmptyFact
    /\ out.k = Scalar(RInt(2)) /\ out.k2 = Scalar(RInt(3))
    /\ \A p \in DOMAIN a.fact : out.iv.fact[p] = RMul(a.fact[p], RInt(6))
    /\ Ok(out.iv) \notin multiply(a, Scalar(RInt(5)))

\* C4: x.stack(x.inverse) equals Interval.zero() for every interval x, and is
\* the exact unison with an empty factorization when x is exact.
C4_StackInverseIsZero ==
    out.op = "stack_inverse" =>
        /\ out.st = "ok"
        /\ Same(out.iv, Zero)
        /\ a.exact => out.iv = Zero

\* the entrywise sum of two factorizations, and a factorization scaled
SumAt(f, g, p) == RAdd(Get(f, p), Get(g, p))
ScaledAt(f, k, p) == RMul(Get(f, p), k)

\* C6: for exact x and y, x.stack(y) is exact and its factorization is the
\* entrywise sum of the two; for exact x and an int or Fraction k,
\* x.multiply(k) is exact with every exponent scaled by k; in both results a
\* prime is present exactly when its resulting exponent is not 0.
C6_ExactArithmetic ==
    /\ out.op = "stack" /\ a.exact /\ b.exact =>
        /\ out.st = "ok" /\ out.iv.exact
        /\ DOMAIN out.iv.fact =
               {p \in DOMAIN a.fact \cup DOMAIN b.fact : SumAt(a.fact, b.fact, p) # RZero}
        /\ \A p \in DOMAIN out.iv.fact : out.iv.fact[p] = SumAt(a.fact, b.fact, p)
    /\ out.op = "multiply" /\ a.exact /\ ~out.k.fl =>
        /\ out.st = "ok" /\ out.iv.exact
        /\ DOMAIN out.iv.fact = {p \in DOMAIN a.fact : ScaledAt(a.fact, out.k.q, p) # RZero}
        /\ \A p \in DOMAIN out.iv.fact : out.iv.fact[p] = ScaledAt(a.fact, out.k.q, p)

\* two exact intervals were stacked, an exponent cancelled and another did not
C6_Witness ==
    /\ out.op = "stack" /\ out.st = "ok" /\ a.exact /\ b.exact
    /\ \E p \in DOMAIN a.fact \cap DOMAIN b.fact : p \notin DOMAIN out.iv.fact
    /\ out.iv.fact # EmptyFact

\* x is period raised to the power k: every prime has in x the exponent k times
\* its exponent in period
IsPowerBy(x, pfact, k) ==
    \A p \in DOMAIN x.fact \cup DOMAIN pfact : Get(x.fact, p) = RMul(k, Get(pfact, p))

\* the powers k a period of factorization pfact could be raised to, to give x
PowersOf(x, pfact) ==
    {k \in {RDiv(Get(x.fact, p), pfact[p]) : p \in DOMAIN pfact} \cup {RZero} :
        IsPowerBy(x, pfact, k)}

\* C7: for an exact x and rational n and P, x.edx_steps(n, P) is the exact
\* k * n whenever x is P to a rational power k, and a float logarithm in every
\* other case.
C7_EdxStepsExactOrFloat ==
    out.op = "edx_steps" /\ a.exact =>
        IF PowersOf(a, PrimeFactorsOver(AllPrimes, out.k2.q).fact) # {}
        THEN \E k \in PowersOf(a, PrimeFactorsOver(AllPrimes, out.k2.q).fact) :
                 out.val = StepsExact(RMul(k, out.k.q))
        ELSE out.val.t = "float"

\* the intervals a session holds: a, b and the interval the last call returned
Held ==
    {a, b} \cup
    (IF out.st = "ok" /\ out.op \notin {"none", "compare", "edx_steps"} THEN {out.iv} ELSE {})

\* C8: every interval constructed, by a constructor or by stack, multiply,
\* inverse and divmod, has a ratio that is a strictly positive finite number.
C8_RatioPositiveFinite == \A x \in Held : Ratio(x).t \in {"rat", "float"}

\* C9: a.compare(b) is 0 exactly when the cents of a and b rounded to 10 digits
\* are equal, it is -1, 0 or 1 for every two intervals (one of a < b, a == b,
\* a > b holds), and equal intervals have equal hashes.
C9_CoarseEqualityAndHash ==
    out.op = "compare" =>
        /\ out.st = "ok"
        /\ out.q \in {-1, 0, 1}
        /\ (out.q = 0) <=> (coarse_cents(a) = coarse_cents(b))
        /\ (out.q < 0) <=> (coarse_cents(a).v < coarse_cents(b).v)
        /\ out.q = 0 => out.h[1] = out.h[2]

---------------------------------------------------------------------------
(* Monzo: xenterval/ji.py.  A monzo is the tuple of its entries. *)

MonzoOk(m) == [m |-> m, st |-> "ok"]
MonzoRaise(e) == [m |-> <<>>, st |-> e]

\* strip unnecessary zeros: the entries up to the last nonzero one
RECURSIVE StripTrailing(_)
StripTrailing(entries) ==
    IF entries = <<>> THEN <<>>
    ELSE IF entries[Len(entries)] # RZero THEN entries
    ELSE StripTrailing(SubSeq(entries, 1, Len(entries) - 1))

\* Monzo(*entries), given the stripped entries
MonzoOfStripped(entries) ==
    IF Len(entries) > Len(KNOWN_PRIMES) THEN MonzoRaise("ValueError") ELSE MonzoOk(entries)

\* Monzo(*entries)
MonzoInit(entries) == MonzoOfStripped(StripTrailing(entries))

\* _extended_entries
extended_entries(m, length) ==
    IF length - Len(m) > 0 THEN m \o [i \in 1..(length - Len(m)) |-> RZero] ELSE m

\* __eq__ for two monzos
MonzoEq(m1, m2) == extended_entries(m1, Len(m2)) = extended_entries(m2, Len(m1))

\* primes_exponents: the positions of the nonzero entries
primes_exponents(m) == {i \in 1..Len(m) : m[i] # RZero}

\* Fraction(p) ** x for an int x
RECURSIVE PowInt(_, _)
PowInt(p, x) ==
    IF x = 0 THEN ROne
    ELSE IF x < 0 THEN RDiv(ROne, PowInt(p, -x))
    ELSE RMul(RInt(p), PowInt(p, x - 1))

\* the product of Fraction(p) ** x over the positions ps of a monzo
RECURSIVE ProdOver(_, _)
ProdOver(m, ps) ==
    IF ps = {} THEN ROne
    ELSE RMul(PowInt(KNOWN_PRIMES[CHOOSE i \in ps : TRUE], m[CHOOSE i \in ps : TRUE][1]),
              ProdOver(m, ps \ {CHOOSE i \in ps : TRUE}))

\* Monzo.ratio: an int or Fraction for whole entries (t = "rat"), a float
\* otherwise (t = "float", its value left open)
MonzoRatio(m) ==
    IF \A i \in 1..Len(m) : RIsInt(m[i])
    THEN [q |-> ProdOver(m, primes_exponents(m)), t |-> "rat"]
    ELSE [q |-> ROne, t |-> "float"]

\* from_ratio without the entries of the primes that are absent
RECURSIVE FromRatioNoZeros(_, _, _)
FromRatioNoZeros(i, factorization, entries) ==
    IF i > Len(KNOWN_PRIMES) \/ DOMAIN factorization = {} THEN entries
    ELSE FromRatioNoZeros(i + 1,
                          [q \in DOMAIN factorization \ {KNOWN_PRIMES[i]} |-> factorization[q]],
                          IF KNOWN_PRIMES[i] \in DOMAIN factorization
                          THEN Append(entries, factorization[KNOWN_PRIMES[i]])
                          ELSE entries)

\* the factorization without the prime p
Without(f, p) == [q \in DOMAIN f \ {p} |-> f[q]]

\* the loop of from_ratio from the i-th prime on: it ends when the
\* factorization is used up, or with the last prime
RECURSIVE FromRatioLoop(_, _, _)
FromRatioLoop(i, factorization, entries) ==
    IF i > Len(KNOWN_PRIMES) \/ DOMAIN factorization = {} THEN entries
    ELSE FromRatioLoop(i + 1, Without(factorization, KNOWN_PRIMES[i]),
                       Append(entries, Get(factorization, KNOWN_PRIMES[i])))

\* from_ratio, given the outcome of prime_factors
FromFactors(pf) ==
    IF pf.st # "ok" THEN MonzoRaise(pf.st) ELSE MonzoInit(FromRatioLoop(1, pf.fact, <<>>))

\* Monzo.from_ratio
from_ratio(ratio) == FromFactors(prime_factors(ratio))

\* sum(e * k for e, k in zip(single_entries, ks)) at position i
RECURSIVE CombAt(_, _, _)
CombAt(elems, j, i) ==
    IF j = 0 THEN RZero
    ELSE RAdd(RMul(extended_entries(elems[j][1], i)[i], elems[j][2]), CombAt(elems, j - 1, i))

\* the longest of the monzos of elems
RECURSIVE MaxLen(_, _)
MaxLen(elems, j) ==
    IF j = 0 THEN 0
    ELSE IF Len(elems[j][1]) > MaxLen(elems, j - 1) THEN Len(elems[j][1])
    ELSE MaxLen(elems, j - 1)

\* Monzo.lin_comb for a sequence of pairs <<monzo, coefficient>>
lin_comb(elems) ==
    MonzoInit([i \in 1..MaxLen(elems, Len(elems)) |-> CombAt(elems, Len(elems), i)])

---------------------------------------------------------------------------
(* JISubgroup: xenterval/ji.py *)

GroupOk(gens, gms) == [st |-> "ok", generators |-> gens, gen_monzos |-> gms]
GroupRaise(e) == [st |-> e, generators |-> <<>>, gen_monzos |-> <<>>]

\* the check of consecutive monzos letting equal lengths through
GroupOfLooseMonzos(generators, ms) ==
    IF \E i \in 1..Len(ms) : ms[i].st # "ok" THEN GroupRaise("ValueError")
    ELSE IF \E i \in 1..(Len(ms) - 1) : Len(ms[i].m) > Len(ms[i + 1].m)
        THEN GroupRaise("ValueError")
    ELSE GroupOk(generators, [i \in 1..Len(ms) |-> ms[i].m])

\* the check of consecutive generator monzos, given each from_ratio outcome
GroupOfMonzos(generators, ms) ==
    IF \E i \in 1..Len(ms) : ms[i].st # "ok" THEN GroupRaise("ValueError")
    ELSE IF \E i \in 1..(Len(ms) - 1) : Len(ms[i].m) >= Len(ms[i + 1].m)
        THEN GroupRaise("ValueError")
    ELSE GroupOk(generators, [i \in 1..Len(ms) |-> ms[i].m])

\* JISubgroup(*generators)
JISubgroupInit(generators) ==
    IF \E i \in 1..Len(generators) : RLe(generators[i], ROne) THEN GroupRaise("ValueError")
    ELSE GroupOfMonzos(generators, [i \in 1..Len(generators) |-> from_ratio(generators[i])])

\* Python's divmod(e, m) of two ints, m # 0: the floored quotient and the rest
PyDivmod(e, m) ==
    IF m > 0 THEN <<e \div m, e % m>> ELSE <<(-e) \div (-m), -((-e) % (-m))>>

\* the loop of contains over reversed(gen_monzos), from the i-th monzo down
RECURSIVE ContainsLoop(_, _, _)
RECURSIVE ContainsReduce(_, _, _, _)
\* the step of the loop taking the generator off once, whatever the quotient
ContainsSubtractOnce(gms, i, elem, qr) ==
    IF qr[2] # 0 THEN FALSE
    ELSE ContainsLoop(gms, i - 1, lin_comb(<<<<elem, ROne>>, <<gms[i], RInt(-1)>>>>).m)

ContainsReduce(gms, i, elem, qr) ==
    IF qr[2] # 0 THEN FALSE
    ELSE ContainsLoop(gms, i - 1, lin_comb(<<<<elem, ROne>>, <<gms[i], RInt(-qr[1])>>>>).m)

ContainsLoop(gms, i, elem) ==
    IF i = 0 THEN Len(elem) = 0
    ELSE IF Len(elem) = 0 THEN TRUE
    ELSE IF Len(elem) > Len(gms[i]) THEN FALSE
    ELSE IF Len(elem) < Len(gms[i]) THEN ContainsLoop(gms, i - 1, elem)
    ELSE ContainsReduce(gms, i, elem,
                        PyDivmod(elem[Len(elem)][1], gms[i][Len(gms[i])][1]))

\* contains without the test of the denominators of the entries
ContainsUnchecked(G, elem) ==
    [r |-> ContainsLoop(G.gen_monzos, Len(G.gen_monzos), elem), st |-> "ok"]

\* contains for a monzo
contains(G, elem) ==
    IF \E i \in 1..Len(elem) : ~RIsInt(elem[i]) THEN [r |-> FALSE, st |-> "ValueError"]
    ELSE [r |-> ContainsLoop(G.gen_monzos, Len(G.gen_monzos), elem), st |-> "ok"]

---------------------------------------------------------------------------
(* A session with Monzo: a monzo is made from entries and taken to its ratio *)
(* and back, or a ratio is taken to its monzo and back.                      *)

\* largest size of a monzo entry, largest numerator and denominator of a ratio
MaxEntry == 2
MaxRatio == 12

\* tuples of up to n entries of size at most MaxEntry
EntryTuples(n) == UNION {[1..k -> {RInt(e) : e \in -MaxEntry..MaxEntry}] : k \in 0..n}

RatioArgs == {Fraction(n, d) : n \in 1..MaxRatio, d \in 1..MaxRatio}

MonzoOut(op, st, m, r, back, rback) ==
    [m |-> m, r |-> r, st |-> st, op |-> op, back |-> back, rback |-> rback]

InitMonzo ==
    /\ a = Zero
    /\ b = Zero
    /\ out = Out("none", "ok", NoScalar, NoScalar, Zero, 0, NoSteps, <<0, 0>>)
    /\ mz = MonzoOut("none", "ok", <<>>, ROne, <<>>, ROne)
    /\ grp = <<>>
    /\ cf = <<>>
    /\ nm = <<>>
    /\ ix = <<>>

\* Monzo.from_ratio(m.ratio), given the monzo made and its ratio
RatioAndBack(made, r) ==
    IF made.st # "ok" THEN MonzoOut("no_monzo", made.st, <<>>, ROne, <<>>, ROne)
    ELSE MonzoOut("monzo", from_ratio(r.q).st, made.m, r.q, from_ratio(r.q).m, ROne)

\* m = Monzo(*entries), then Monzo.from_ratio(m.ratio): one call by session,
\* the functions keeping no state
MonzoRoundTrip ==
    /\ mz.op = "none"
    /\ \E entries \in EntryTuples(NumPrimes + 1) :
        mz' = RatioAndBack(MonzoInit(entries), MonzoRatio(MonzoInit(entries).m))
    /\ UNCHANGED <<a, b, out, grp, cf, nm, ix>>

\* Monzo.from_ratio(r).ratio, given the monzo of r
MonzoAndBack(r, made) ==
    IF made.st # "ok" THEN MonzoOut("ratio", made.st, <<>>, r, <<>>, ROne)
    ELSE MonzoOut("ratio", "ok", made.m, r, <<>>, MonzoRatio(made.m).q)

\* Monzo.from_ratio(r).ratio
RatioRoundTrip ==
    /\ mz.op = "none"
    /\ \E r \in RatioArgs : mz' = MonzoAndBack(r, from_ratio(r))
    /\ UNCHANGED <<a, b, out, grp, cf, nm, ix>>

NextMonzo == MonzoRoundTrip \/ RatioRoundTrip

SpecMonzo == InitMonzo /\ [][NextMonzo]_vars

\* the primes of AllPrimes that divide the ratio r are in the registry
InRegistry(r) == DOMAIN PrimeFactorsOver(AllPrimes, r).fact \subseteq PrimeSet

\* C5: Monzo.from_ratio(r).ratio == r for every positive rational r whose
\* primes are in the registry, and Monzo.from_ratio(m.ratio) == m for every
\* monzo m of whole entries.
C5_RatioMonzoRoundTrip ==
    /\ mz.op = "ratio" /\ InRegistry(mz.r) => mz.st = "ok" /\ mz.rback = mz.r
    /\ mz.op = "monzo" => mz.st = "ok" /\ MonzoEq(mz.back, mz.m)

\* a ratio with the last prime of the registry and without a prime before it
\* went to its monzo, a zero entry in it, and back
C5_Witness ==
    /\ mz.op = "ratio" /\ mz.st = "ok"
    /\ Len(mz.m) = Len(KNOWN_PRIMES)
    /\ \E i \in 1..Len(mz.m) : mz.m[i] = RZero
    /\ mz.rback = mz.r

---------------------------------------------------------------------------
(* A session with JISubgroup: a subgroup is made from a list of generators  *)
(* and asked whether it contains a monzo.                                   *)

\* lists of generators: normal ones, and ones the constructor rejects
GeneratorLists ==
    { <<>>, <<RInt(2)>>, <<RInt(3)>>, <<RInt(2), RInt(3)>>,
      <<RInt(2), RInt(3), RInt(LastPrime)>>,
      <<RInt(2), Fraction(3, 2)>>, <<RInt(2), Fraction(4, 3)>>,
      <<RInt(4), RInt(3)>>, <<RInt(2), RInt(9)>>, <<RInt(3), RInt(LastPrime)>>,
      <<Fraction(9, 8), RInt(LastPrime)>>, <<RInt(4), RInt(9)>>,
      <<RInt(2), Fraction(3, 2), RInt(LastPrime)>>,
      <<RInt(3), RInt(2)>>, <<RInt(2), RInt(4)>>, <<Fraction(1, 2)>>, <<ROne>>,
      <<RInt(LargePrime)>>, <<RInt(2), RInt(LargePrime)>> }

GroupOut(op, st, G, elem, r) == [r |-> r, st |-> st, op |-> op, elem |-> elem, G |-> G]

NoGroup == GroupOk(<<>>, <<>>)

InitJI ==
    /\ a = Zero
    /\ b = Zero
    /\ out = Out("none", "ok", NoScalar, NoScalar, Zero, 0, NoSteps, <<0, 0>>)
    /\ mz = <<>>
    /\ grp = GroupOut("none", "ok", NoGroup, <<>>, FALSE)
    /\ cf = <<>>
    /\ nm = <<>>
    /\ ix = <<>>

\* the subgroup made of the generators gens, or none when the constructor raises
Made(gens, made) ==
    GroupOut("new", made.st, IF made.st = "ok" THEN made ELSE NoGroup, gens, FALSE)

\* G = JISubgroup(*gens), once by session
NewGroup ==
    /\ grp.op = "none"
    /\ \E gens \in GeneratorLists : grp' = Made(gens, JISubgroupInit(gens))
    /\ UNCHANGED <<a, b, out, mz, cf, nm, ix>>

Asked(elem, res) == GroupOut("contains", res.st, grp.G, elem, res.r)

\* G.contains(Monzo(*entries)) for the subgroup made: contains changes nothing,
\* so one call by session is every call
AskContains ==
    /\ grp.op = "new" /\ grp.st = "ok"
    /\ \E entries \in EntryTuples(NumPrimes) :
        grp' = Asked(MonzoInit(entries).m, contains(grp.G, MonzoInit(entries).m))
    /\ UNCHANGED <<a, b, out, mz, cf, nm, ix>>

\* tuples of up to n entries, one of them at least no whole number
FractionalTuples(n) ==
    {t \in UNION {[1..k -> {RInt(-1), RZero, RInt(1), Fraction(1, 2), Fraction(-3, 2)}]
                  : k \in 1..n} : \E i \in DOMAIN t : ~RIsInt(t[i])}

\* G.contains(Monzo(*entries)) for a monzo with a Fraction among its entries
AskContainsFractional ==
    /\ grp.op = "new" /\ grp.st = "ok"
    /\ \E entries \in FractionalTuples(NumPrimes) :
        grp' = GroupOut("contains_fractional", contains(grp.G, MonzoInit(entries).m).st,
                        grp.G, MonzoInit(entries).m,
                        contains(grp.G, MonzoInit(entries).m).r)
    /\ UNCHANGED <<a, b, out, mz, cf, nm, ix>>

NextJI == NewGroup \/ AskContains \/ AskContainsFractional

SpecJI == InitJI /\ [][NextJI]_vars

\* the coefficients tried: enough for the entries and generators of a session
MaxCoef == 3 * MaxEntry

\* the integer linear combination of the monzos gms with coefficients c, at
\* position i
RECURSIVE CombinationAt(_, _, _, _)
CombinationAt(gms, c, j, i) ==
    IF j = 0 THEN 0
    ELSE (IF i <= Len(gms[j]) THEN c[j] * gms[j][i][1] ELSE 0) + CombinationAt(gms, c, j - 1, i)

\* elem is an integer linear combination of the monzos gms
IsCombination(gms, elem) ==
    \E c \in [1..Len(gms) -> -MaxCoef..MaxCoef] :
        \A i \in 1..Len(KNOWN_PRIMES) :
            CombinationAt(gms, c, Len(gms), i) = (IF i <= Len(elem) THEN elem[i][1] ELSE 0)

\* C10: for a subgroup G of a normal list of generators and a monzo e of whole
\* entries, G.contains(e) is True if and only if e is an integer linear
\* combination of the generator monzos of G.
C10_ContainsIffCombination ==
    grp.op = "contains" =>
        /\ grp.st = "ok"
        /\ grp.r <=> IsCombination(grp.G.gen_monzos, grp.elem)

\* a subgroup of two generators, the second with further primes, contains a
\* monzo that takes both generators, and the call says so
C10_Witness ==
    /\ grp.op = "contains" /\ grp.st = "ok" /\ grp.r
    /\ Len(grp.G.gen_monzos) >= 2
    /\ Len(grp.elem) = Len(grp.G.gen_monzos[Len(grp.G.gen_monzos)])
    /\ \E i \in 1..Len(grp.G.gen_monzos) : Len(grp.G.gen_monzos[i]) > i
          \/ Cardinality({j \in 1..Len(grp.G.gen_monzos[i]) : grp.G.gen_monzos[i][j] # RZero}) > 1
    /\ ~IsCombination(SubSeq(grp.G.gen_monzos, 2, Len(grp.G.gen_monzos)), grp.elem)
    /\ ~IsCombination(SubSeq(grp.G.gen_monzos, 1, Len(grp.G.gen_monzos) - 1), grp.elem)

\* C11: G.contains(m) raises, and returns neither True nor False, for every
\* monzo m with an entry that is no whole number, whatever the generators of G.
C11_FractionalMonzoRaises ==
    grp.op = "contains_fractional" => grp.st = "ValueError"

\* a monzo whose whole part alone the subgroup holds was asked with a
\* Fraction entry added, of a subgroup with generators and of the empty one
C11_Witness ==
    /\ grp.op = "contains_fractional" /\ grp.st = "ValueError"
    /\ \E i \in DOMAIN grp.elem : ~RIsInt(grp.elem[i])
    /\ \E i \in DOMAIN grp.elem : RIsInt(grp.elem[i]) /\ grp.elem[i] # RZero
    /\ grp.G.gen_monzos # <<>>

\* the largest prime of the ratio g among AllPrimes, 0 for the ratio 1
HighestPrime(g) ==
    IF DOMAIN PrimeFactorsOver(AllPrimes, g).fact = {} THEN 0
    ELSE CHOOSE p \in DOMAIN PrimeFactorsOver(AllPrimes, g).fact :
             \A q \in DOMAIN PrimeFactorsOver(AllPrimes, g).fact : q <= p

\* every generator is above 1 and the highest primes strictly increase
Normal(gens) ==
    /\ \A i \in 1..Len(gens) : ~RLe(gens[i], ROne)
    /\ \A i \in 1..(Len(gens) - 1) : HighestPrime(gens[i]) < HighestPrime(gens[i + 1])

\* in a subgroup made the monzos grow in length and end with a nonzero entry
Triangular(gms) ==
    /\ \A i \in 1..(Len(gms) - 1) : Len(gms[i]) < Len(gms[i + 1])
    /\ \A i \in 1..Len(gms) : Len(gms[i]) > 0 /\ gms[i][Len(gms[i])] # RZero

\* C12 as stated: JISubgroup(*gens) succeeds exactly when every generator is
\* above 1 and each one's highest prime is above the one before; it raises in
\* every other case, and a subgroup made has monzos of growing length with a
\* nonzero last entry.
C12_ConstructedIffNormal ==
    grp.op = "new" =>
        /\ (grp.st = "ok") <=> Normal(grp.elem)
        /\ grp.st = "ok" => Triangular(grp.G.gen_monzos)

\* C12 amended: JISubgroup(*gens) succeeds exactly when every generator is
\* above 1, has its primes in the registry, and has a highest prime above the
\* one of the generator before; in every other case it raises ValueError; a
\* subgroup made has monzos of growing length with a nonzero last entry.
C12_ConstructedIffNormalInRegistry ==
    grp.op = "new" =>
        /\ (grp.st = "ok") <=>
               (Normal(grp.elem) /\ \A i \in 1..Len(grp.elem) : InRegistry(grp.elem[i]))
        /\ grp.st # "ok" => grp.st = "ValueError" /\ grp.G = NoGroup
        /\ grp.st = "ok" => Triangular(grp.G.gen_monzos) /\ grp.G.generators = grp.elem

\* a list of two generators above 1 was refused for its highest primes alone
C12_Witness ==
    /\ grp.op = "new" /\ grp.st = "ValueError"
    /\ Len(grp.elem) = 2
    /\ \A i \in 1..2 : ~RLe(grp.elem[i], ROne) /\ InRegistry(grp.elem[i])
    /\ HighestPrime(grp.elem[1]) = HighestPrime(grp.elem[2])

---------------------------------------------------------------------------
(* convergents: xenterval/_ratios.py.  The generator is modelled by its     *)
(* frame: one action for each next() of the consumer.                       *)

\* arguments: an int n (d = 1), a Fraction n / d, a float n * 2 ** d written
\* by its mantissa and binary exponent, and the float inf
ConvInt(n) == [n |-> n, d |-> 1, t |-> "int"]
ConvFrac(q) == [n |-> q[1], d |-> q[2], t |-> "Fraction"]
ConvFloat(mant, e) == [n |-> mant, d |-> e, t |-> "float"]
ConvInf == [n |-> 1, d |-> 0, t |-> "inf"]

\* 2 ** e for e >= 0
RECURSIVE TwoTo(_)
TwoTo(e) == IF e = 0 THEN 1 ELSE 2 * TwoTo(e - 1)

\* Fraction(x) of an int or a float; a Fraction stays
AsFraction(x) ==
    IF x.t = "inf" THEN [q |-> RZero, st |-> "OverflowError"]
    ELSE IF x.t = "float"
        THEN [q |-> IF x.d >= 0 THEN RInt(x.n * TwoTo(x.d))
                                  ELSE Fraction(x.n, TwoTo(-x.d)), st |-> "ok"]
    ELSE [q |-> Fraction(x.n, x.d), st |-> "ok"]

\* the frame of the generator: its argument, where it stands, the locals and
\* what it has yielded
Frame(x, st, frac, m_prev, m, n_prev, n, yielded) ==
    [n |-> n, m |-> m, x |-> x, st |-> st, frac |-> frac, m_prev |-> m_prev,
     n_prev |-> n_prev, yielded |-> yielded]

\* the body of the loop with the sum of m dropped its m_prev
ConvBodyNoPrev(c, x) ==
    Frame(c.x, "yielded", RAdd(x, RNeg(RInt(RFloor(x)))),
          c.m, RFloor(x) * c.m, c.n, RFloor(x) * c.n + c.n_prev,
          Append(c.yielded, Fraction(RFloor(x) * c.m, RFloor(x) * c.n + c.n_prev)))

\* the body of the loop down to the yield, for the value x
ConvBody(c, x) ==
    Frame(c.x, "yielded", RAdd(x, RNeg(RInt(RFloor(x)))),
          c.m, RFloor(x) * c.m + c.m_prev, c.n, RFloor(x) * c.n + c.n_prev,
          Append(c.yielded,
                 Fraction(RFloor(x) * c.m + c.m_prev, RFloor(x) * c.n + c.n_prev)))

\* the frame of convergents(x) before its first next()
NewFrame(x) == Frame(x, "new", RZero, 0, 1, 1, 0, <<>>)

\* the frame after it raised or returned
Ended(c, st) == Frame(c.x, st, c.frac, c.m_prev, c.m, c.n_prev, c.n, c.yielded)

\* the first next(): the conversion and the loop down to the first yield
ConvFirst(c, conv) ==
    IF conv.st # "ok" THEN Ended(c, conv.st) ELSE ConvBody(c, conv.q)

\* a later next(): the test after the yield, and the loop once more
ConvAgain(c) ==
    IF c.frac = RZero THEN Ended(c, "done") ELSE ConvBody(c, RDiv(ROne, c.frac))

ConvArgs ==
    {ConvInt(n) : n \in -MaxEntry..MaxEntry} \cup
    {ConvFrac(Fraction(n, d)) : n \in -MaxRatio..MaxRatio, d \in 1..MaxRatio} \cup
    {ConvFloat(mant, e) : mant \in -MaxRatio..MaxRatio, e \in -MaxExp..1} \cup
    {ConvInf}

InitConv ==
    /\ a = Zero
    /\ b = Zero
    /\ out = Out("none", "ok", NoScalar, NoScalar, Zero, 0, NoSteps, <<0, 0>>)
    /\ mz = <<>>
    /\ grp = <<>>
    /\ cf \in {NewFrame(x) : x \in ConvArgs}
    /\ nm = <<>>
    /\ ix = <<>>

ConvStart ==
    /\ cf.st = "new"
    /\ cf' = ConvFirst(cf, AsFraction(cf.x))
    /\ UNCHANGED <<a, b, out, mz, grp, nm, ix>>

ConvNext ==
    /\ cf.st = "yielded"
    /\ cf' = ConvAgain(cf)
    /\ UNCHANGED <<a, b, out, mz, grp, nm, ix>>

NextConv == ConvStart \/ ConvNext

\* the consumer takes the elements until the generator returns
SpecConv == InitConv /\ [][NextConv]_vars /\ WF_vars(NextConv)

\* the last element yielded
LastYielded == cf.yielded[Len(cf.yielded)]

\* C13: convergents(x) terminates for every rational x and every finite float,
\* which is first made its exact Fraction; the last element it yields is x;
\* convergents(0) yields 0 alone; each element is m / n after
\* m, n := a * m + m_prev, a * n + n_prev, from m_prev, m, n_prev, n = 0, 1, 1, 0.
C13_ConvergentsEndWithX ==
    /\ [](cf.x.t # "inf" => cf.st \in {"new", "yielded", "done"})
    /\ <>(cf.x.t = "inf" \/ cf.st = "done")
    /\ [](cf.st = "done" => LastYielded = AsFraction(cf.x).q)
    /\ [](cf.st = "done" /\ AsFraction(cf.x).q = RZero => cf.yielded = <<RZero>>)
    /\ [](cf.st = "new" => <<cf.m_prev, cf.m, cf.n_prev, cf.n>> = <<0, 1, 1, 0>>)
    /\ [][cf'.st = "yielded" =>
            \E k \in -MaxRatio * TwoTo(MaxExp)..MaxRatio * TwoTo(MaxExp) :
                /\ cf'.m = k * cf.m + cf.m_prev /\ cf'.m_prev = cf.m
                /\ cf'.n = k * cf.n + cf.n_prev /\ cf'.n_prev = cf.n
                /\ cf'.yielded = Append(cf.yielded, Fraction(cf'.m, cf'.n))]_vars

\* the generator returned after three elements or more, x being a float that
\* is no whole number
C13_Witness ==
    /\ cf.st = "done" /\ cf.x.t = "float" /\ cf.x.d < 0
    /\ Len(cf.yielded) >= 3
    /\ LastYielded = Fraction(cf.x.n, TwoTo(-cf.x.d))

---------------------------------------------------------------------------
(* FJS: xenterval/interval/name/fjs.py *)

\* the largest |k| the search of a formal comma goes to
MaxShift == 6
\* the exponents of 2 and of 3 of the Pythagorean monzos that are named
MaxTwos == 20
MaxFifths == 13

\* the primes the naming layer runs with: KNOWN_PRIMES as far as the model
\* carries it, so that the commas of the primes up to 37 exist
NamedPrimes == AllPrimes

\* the loop of from_ratio over the primes ps
RECURSIVE FromRatioLoopOver(_, _, _, _)
FromRatioLoopOver(ps, i, factorization, entries) ==
    IF i > Len(ps) \/ DOMAIN factorization = {} THEN entries
    ELSE FromRatioLoopOver(ps, i + 1, Without(factorization, ps[i]),
                           Append(entries, Get(factorization, ps[i])))

\* Monzo.from_ratio over NamedPrimes, for a ratio that factors over them
NamedFromRatio(ratio) ==
    StripTrailing(FromRatioLoopOver(NamedPrimes, 1,
                                    PrimeFactorsOver(NamedPrimes, ratio).fact, <<>>))

\* Monzo.lin_comb over NamedPrimes: no sum is longer than the registry
NamedLinComb(elems) ==
    StripTrailing([i \in 1..MaxLen(elems, Len(elems)) |-> CombAt(elems, Len(elems), i)])

\* entry_at(i) of an all-integer monzo, i counted from 0
entry_at(m, i) == IF i + 1 <= Len(m) THEN m[i + 1][1] ELSE 0

\* r / two ** floor(log2(r)) for r > 0
RECURSIVE OctaveReduced(_)
OctaveReduced(r) ==
    IF RLe(RInt(2), r) THEN OctaveReduced(RDiv(r, RInt(2)))
    ELSE IF ~RLe(ROne, r) THEN OctaveReduced(RMul(r, RInt(2)))
    ELSE r

\* n / d < [a; 2, 2, 2, ...], by the continued fraction of n / d
RECURSIVE BelowQuadratic(_, _, _)
BelowQuadratic(n, d, a0) ==
    IF n \div d < a0 THEN TRUE
    ELSE IF n \div d > a0 THEN FALSE
    ELSE IF n % d = 0 THEN TRUE
    ELSE ~BelowQuadratic(d, n % d, 2)

\* r < _SQRT2 for a rational r > 0: sqrt(2) is [1; 2, 2, 2, ...]
BelowSqrt2(r) == BelowQuadratic(r[1], r[2], 1)

\* reduced_balanced returning r, halved or not
NotHalved(r) == r

\* the last line of reduced_balanced
Balanced(r) == IF BelowSqrt2(r) THEN r ELSE RDiv(r, RInt(2))

\* reduced_balanced
reduced_balanced(r) == Balanced(OctaveReduced(r))

\* all_shifts: 0, 1, -1, 2, -2, ...: the shift after k
NextShift(k) == IF k = 0 THEN 1 ELSE IF k > 0 THEN -k ELSE 1 - k

\* abs(float(Interval(ratio=comma).cents)) < radius, the radius being the
\* cents of the ratio tol
WithinRadius(comma, tol) == ~RLe(tol, comma) /\ ~RLe(tol, RDiv(ROne, comma))

\* the loop of _formal_comma from the shift k on
RECURSIVE FormalCommaFrom(_, _, _)
RECURSIVE FormalCommaStep(_, _, _, _)
FormalCommaStep(p, tol, k, comma) ==
    IF WithinRadius(comma, tol) THEN [st |-> "ok", k |-> k, comma |-> comma]
    ELSE FormalCommaFrom(p, tol, NextShift(k))

FormalCommaFrom(p, tol, k) ==
    IF Abs(k) > MaxShift THEN [st |-> "searching", k |-> k, comma |-> ROne]
    ELSE FormalCommaStep(p, tol, k, reduced_balanced(RMul(RInt(p), PowInt(3, -k))))

\* _formal_comma(p) before Monzo.from_ratio
formal_comma(p, tol) == FormalCommaFrom(p, tol, 0)

\* the searches of FJS(tolerance_radius), one for each of KNOWN_PRIMES[2:]
CommaSearches(tol) ==
    [j \in 1..(Len(NamedPrimes) - 2) |-> formal_comma(NamedPrimes[j + 2], tol)]

\* FJS(tolerance_radius), given the searches
FJSOfSearches(tol, found) ==
    IF \E j \in 1..Len(found) : found[j].st # "ok"
    THEN [st |-> "searching", tol |-> tol, commas |-> <<>>]
    ELSE [st |-> "ok", tol |-> tol,
          commas |-> [j \in 1..Len(found) |-> NamedFromRatio(found[j].comma)]]

\* FJS(tolerance_radius)
FJSInit(tol) ==
    IF RLe(tol, RZero) THEN [st |-> "AssertionError", tol |-> tol, commas |-> <<>>]
    ELSE FJSOfSearches(tol, CommaSearches(tol))

\* p repeated n times
RECURSIVE Repeated(_, _)
Repeated(p, n) == IF n <= 0 THEN <<>> ELSE <<p>> \o Repeated(p, n - 1)

\* otonal_commas, from the i-th entry on
RECURSIVE otonal_commas(_, _)
otonal_commas(m, i) ==
    IF i > Len(m) THEN <<>>
    ELSE Repeated(NamedPrimes[i], m[i][1]) \o otonal_commas(m, i + 1)

\* utonal_commas, from the i-th entry on
RECURSIVE utonal_commas(_, _)
utonal_commas(m, i) ==
    IF i > Len(m) THEN <<>>
    ELSE Repeated(NamedPrimes[i], -m[i][1]) \o utonal_commas(m, i + 1)

\* commas_ks with the commas paired with the entries from the second on
CommasOffByOne(F, m) ==
    [j \in 1..(IF Len(m) - 1 < Len(F.commas) THEN IF Len(m) < 1 THEN 0 ELSE Len(m) - 1
               ELSE Len(F.commas)) |-> <<F.commas[j], RNeg(m[j + 1])>>]

\* commas_ks: zip(self.commas, m.entries[2:])
commas_ks(F, m) ==
    [j \in 1..(IF Len(m) - 2 < Len(F.commas) THEN IF Len(m) < 2 THEN 0 ELSE Len(m) - 2
               ELSE Len(F.commas)) |-> <<F.commas[j], RNeg(m[j + 2])>>]

\* pythagorean
pythagorean(F, m) == NamedLinComb(<<<<m, ROne>>>> \o commas_ks(F, m))

OctaveShifts == <<0, 0, 1, 1, 2, 2, 3>>
Degrees == <<0, 4, 1, 5, 2, 6, 3>>

\* octave_shift with five octaves for seven fifths
OctaveShiftByFives(fifths) ==
    OctaveShifts[PyDivmod(fifths, 7)[2] + 1] + 5 * PyDivmod(fifths, 7)[1]

\* octave_shift
octave_shift(fifths) ==
    OctaveShifts[PyDivmod(fifths, 7)[2] + 1] + 4 * PyDivmod(fifths, 7)[1]

\* variant before the sign of fifths, with d and A from seven fifths on
VariantFromSeven(abs_fifths) ==
    IF abs_fifths <= 1 THEN 0
    ELSE IF abs_fifths <= 5 THEN 1
    ELSE (abs_fifths + 7) \div 7

\* variant before the sign of fifths
variant(abs_fifths) ==
    IF abs_fifths <= 1 THEN 0
    ELSE IF abs_fifths <= 5 THEN 1
    ELSE (abs_fifths + 8) \div 7

\* var_deg_oct_sign
var_deg_oct_sign(twos, fifths, sign) ==
    [variant |-> variant(Abs(fifths)) * (IF fifths >= 0 THEN 1 ELSE -1),
     sign |-> sign,
     degree |-> Degrees[PyDivmod(fifths, 7)[2] + 1],
     octaves |-> twos + fifths + octave_shift(fifths)]

\* FJSName with the degree of the candidate, whatever its sign
FJSNameUpwards(c, otonal, utonal) ==
    [st |-> "ok", variant |-> c.variant, sign |-> c.sign,
     degree |-> c.degree + c.octaves * 7,
     otonal |-> otonal, utonal |-> utonal]

\* FJSName(variant, (degree + octaves * 7) * sign, otonal, utonal)
FJSName(c, otonal, utonal) ==
    [st |-> "ok", variant |-> c.variant, sign |-> c.sign,
     degree |-> (c.degree + c.octaves * 7) * c.sign,
     otonal |-> otonal, utonal |-> utonal]

\* the loop of name over the two candidates
NameOfCandidates(direct, negated, otonal, utonal) ==
    IF direct.octaves >= 0 THEN FJSName(direct, otonal, utonal)
    ELSE IF negated.octaves >= 0 THEN FJSName(negated, otonal, utonal)
    ELSE [st |-> "AssertionError", variant |-> 0, sign |-> 0, degree |-> 0,
          otonal |-> <<>>, utonal |-> <<>>]

\* name, given twos and threes of pythagorean
NameOfResidue(twos, threes, m) ==
    NameOfCandidates(var_deg_oct_sign(twos, threes, 1),
                     var_deg_oct_sign(-twos, -threes, -1),
                     otonal_commas(m, 3), utonal_commas(m, 3))

\* the end of name, given pythagorean
NameOfPythagorean(pyth, m) == NameOfResidue(entry_at(pyth, 0), entry_at(pyth, 1), m)

\* FJS.name
name(F, m) == NameOfPythagorean(pythagorean(F, m), m)

\* _format_data
format_data ==
    [spec \in {"", "h", "t"} |->
        IF spec = "" THEN <<"^", "", "_", "", ",">>
        ELSE IF spec = "h" THEN <<"<sup>", "</sup>", "<sub>", "</sub>", ",">>
        ELSE <<"^{", "}{}", "_{", "}", "{,}">>]

\* s * n
RECURSIVE Times(_, _)
Times(s, n) == IF n <= 0 THEN "" ELSE s \o Times(s, n - 1)

\* fc.join(map(str, commas))
RECURSIVE Joined(_, _)
Joined(fc, commas) ==
    IF commas = <<>> THEN ""
    ELSE IF Len(commas) = 1 THEN ToString(commas[1])
    ELSE ToString(commas[1]) \o fc \o Joined(fc, Tail(commas))

\* the segment of the variant
VariantSegment(v) ==
    IF -1 <= v /\ v <= 1 THEN <<"m", "P", "M">>[v + 2]
    ELSE Times(IF v < 0 THEN "d" ELSE "A", Abs(v) - 1)

\* the segments of the commas, given the row of _format_data
CommaSegments(n, fd) ==
    (IF n.otonal # <<>> THEN fd[1] \o Joined(fd[5], n.otonal) \o fd[2] ELSE "")
    \o (IF n.utonal # <<>> THEN fd[3] \o Joined(fd[5], n.utonal) \o fd[4] ELSE "")

\* FJSName.__format__
format(n, spec) ==
    IF spec \notin DOMAIN format_data THEN [st |-> "ValueError", text |-> ""]
    ELSE [st |-> "ok",
          text |-> VariantSegment(n.variant)
                   \o (IF n.degree < 0 THEN "-" ELSE "")
                   \o ToString(Abs(n.degree) + 1)
                   \o CommaSegments(n, format_data[spec])]

---------------------------------------------------------------------------
(* A session with FJS: one namer is made, or one monzo is named and the
   name is formatted *)

\* 65 / 63, the default of tolerance_radius
DefaultTolerance == Fraction(65, 63)

Tolerances ==
    {DefaultTolerance, Fraction(9, 8), Fraction(256, 243), Fraction(33, 32), Fraction(50, 49),
     RZero}

\* the namers of the session
Namers == [tol \in Tolerances |-> FJSInit(tol)]

IntTuples(n) == [1..n -> {RInt(e) : e \in -MaxEntry..MaxEntry}]

\* the monzos that are named: the Pythagorean ones, the ones of the first
\* four primes, and some of higher primes
PythagoreanArgs ==
    {StripTrailing(<<RInt(x), RInt(y)>>) : x \in -MaxTwos..MaxTwos, y \in -MaxFifths..MaxFifths}

NameArgs ==
    PythagoreanArgs
    \cup {StripTrailing(t) : t \in IntTuples(4)}
    \cup {NamedFromRatio(r) : r \in {Fraction(66, 65), Fraction(37, 36), Fraction(31, 16),
                                     Fraction(17, 19), Fraction(23, 29), Fraction(121, 169)}}

FormatSpecs == {"", "h", "t", "x"}

NoName ==
    [st |-> "none", variant |-> 0, sign |-> 0, degree |-> 0, otonal |-> <<>>, utonal |-> <<>>]

Naming(op, F, m, n, spec, f) ==
    [m |-> m, st |-> f.st, op |-> op, F |-> F, name |-> n, spec |-> spec, text |-> f.text]

InitFJS ==
    /\ a = Zero
    /\ b = Zero
    /\ out = Out("none", "ok", NoScalar, NoScalar, Zero, 0, NoSteps, <<0, 0>>)
    /\ mz = <<>>
    /\ grp = <<>>
    /\ cf = <<>>
    /\ nm = Naming("none", Namers[DefaultTolerance], <<>>, NoName, "", [st |-> "ok", text |-> ""])
    /\ ix = <<>>

\* FJS(tolerance_radius)
MakeFJS ==
    /\ nm.op = "none"
    /\ \E tol \in Tolerances :
        nm' = Naming("fjs", Namers[tol], <<>>, NoName, "", [st |-> "ok", text |-> ""])
    /\ UNCHANGED <<a, b, out, mz, grp, cf, ix>>

\* format(FJS(tolerance_radius).name(m), spec)
NameMonzo ==
    /\ nm.op = "none"
    /\ \E tol \in Tolerances, m \in NameArgs, spec \in FormatSpecs :
        /\ Namers[tol].st = "ok"
        /\ (tol # DefaultTolerance => Len(m) > 2)
        /\ nm' = Naming("name", Namers[tol], m, name(Namers[tol], m), spec,
                        format(name(Namers[tol], m), spec))
    /\ UNCHANGED <<a, b, out, mz, grp, cf, ix>>

NextFJS == MakeFJS \/ NameMonzo

SpecFJS == InitFJS /\ [][NextFJS]_vars

\* C14: for every all-integer monzo the residue that name computes has the
\* exponent zero at every prime above 3, and every formal comma has the
\* exponent one at its own prime and zero at every other prime above 3
C14_ResidueIsPythagorean ==
    /\ nm.op = "name" => Len(pythagorean(nm.F, nm.m)) <= 2
    /\ nm.op = "fjs" /\ nm.F.st = "ok" =>
        \A j \in 1..Len(nm.F.commas) :
            \A i \in 3..Len(NamedPrimes) :
                entry_at(nm.F.commas[j], i - 1) = (IF i = j + 2 THEN 1 ELSE 0)

\* a monzo with a prime above 3 was named by a namer of another tolerance
C14_Witness ==
    /\ nm.op = "name" /\ nm.st = "ok"
    /\ nm.F.tol # DefaultTolerance
    /\ Len(nm.m) = 4 /\ nm.m[3] = RInt(-2) /\ nm.m[4] = RInt(1)
    /\ Len(pythagorean(nm.F, nm.m)) = 2

\* the octave count of 2^twos * 3^fifths: twos + fifths + octave_shift(fifths)
\* is twos + floor(11 * fifths / 7)
OctaveCount(twos, fifths) == twos + (11 * fifths) \div 7

\* twos and threes of the residue of the monzo that was named
Twos == entry_at(pythagorean(nm.F, nm.m), 0)
Threes == entry_at(pythagorean(nm.F, nm.m), 1)

\* C15: for every pair (twos, threes) of the residue one of the two sign
\* conventions gives an octave count >= 0, so name returns an FJSName and
\* never fails; the direct convention is used whenever its count is >= 0,
\* the negated one otherwise
C15_OneConventionFits ==
    nm.op = "name" =>
        /\ nm.name.st = "ok"
        /\ OctaveCount(Twos, Threes) >= 0 \/ OctaveCount(-Twos, -Threes) >= 0
        /\ OctaveCount(Twos, Threes) >= 0 => nm.name.sign = 1
        /\ OctaveCount(Twos, Threes) < 0 => nm.name.sign = -1

\* a monzo with a prime above 3 was named under the negated convention
C15_Witness ==
    /\ nm.op = "name" /\ nm.name.st = "ok" /\ nm.name.sign = -1
    /\ Len(nm.m) > 2
    /\ OctaveCount(Twos, Threes) < 0 /\ OctaveCount(-Twos, -Threes) >= 0

RECURSIVE PowerOfTwo(_)
PowerOfTwo(n) == n = 1 \/ (n > 1 /\ n % 2 = 0 /\ PowerOfTwo(n \div 2))

\* c times the power of two that brings it into [1/sqrt(2), sqrt(2))
RECURSIVE Rebalanced(_)
Rebalanced(c) ==
    IF ~BelowSqrt2(c) THEN Rebalanced(RDiv(c, RInt(2)))
    ELSE IF BelowSqrt2(RMul(RInt(2), c)) THEN Rebalanced(RMul(RInt(2), c))
    ELSE c

\* p * 3^(-k) brought into [1/sqrt(2), sqrt(2)) by octaves
CommaAt(p, k) == Rebalanced(RMul(RInt(p), PowInt(3, -k)))

\* c is p * 3^(-k) times a power of two and lies in [1/sqrt(2), sqrt(2))
IsCommaOf(c, p, k) ==
    /\ PowerOfTwo(RDiv(RMul(c, PowInt(3, k)), RInt(p))[1])
    /\ PowerOfTwo(RDiv(RMul(c, PowInt(3, k)), RInt(p))[2])
    /\ BelowSqrt2(c) /\ ~BelowSqrt2(RMul(RInt(2), c))

\* 1 / tol < c < tol
StrictlyWithin(c, tol) == c[1] * tol[2] < tol[1] * c[2] /\ tol[2] * c[2] < c[1] * tol[1]

\* k1 comes before k in the order 0, +1, -1, +2, -2, ...
Earlier(k1, k) == Abs(k1) < Abs(k) \/ (Abs(k1) = Abs(k) /\ k1 > 0 /\ k < 0)

\* the comma monzo cm of the prime p is the one of the first k within tol
FoundAt(tol, p, k, cm) ==
    /\ cm = NamedFromRatio(CommaAt(p, k))
    /\ IsCommaOf(CommaAt(p, k), p, k)
    /\ StrictlyWithin(CommaAt(p, k), tol)
    /\ \A k1 \in -MaxShift..MaxShift : Earlier(k1, k) => ~StrictlyWithin(CommaAt(p, k1), tol)

\* the formal commas of the primes 5 to 31 under the default tolerance
DefaultCommas ==
    <<Fraction(80, 81), Fraction(63, 64), Fraction(33, 32), Fraction(1053, 1024),
      Fraction(4131, 4096), Fraction(513, 512), Fraction(736, 729), Fraction(261, 256),
      Fraction(248, 243)>>

\* C16: the formal comma of each registry prime p >= 5 is p * 3^(-k),
\* octave-reduced and halved when >= sqrt(2), for the first k in the order
\* 0, +1, -1, +2, -2, ... whose result lies strictly within the tolerance;
\* the default tolerance 65/63 gives 80/81, 63/64, 33/32, 1053/1024,
\* 4131/4096, 513/512, 736/729, 261/256, 248/243 for the primes 5 to 31
C16_FormalCommas ==
    nm.op = "fjs" /\ nm.F.st = "ok" =>
        /\ Len(nm.F.commas) = Len(NamedPrimes) - 2
        /\ \A j \in 1..Len(nm.F.commas) :
            \E k \in -MaxShift..MaxShift : FoundAt(nm.F.tol, NamedPrimes[j + 2], k, nm.F.commas[j])
        /\ nm.F.tol = Fraction(65, 63) =>
            \A j \in 1..Len(DefaultCommas) :
                /\ NamedPrimes[j + 2] >= 5 /\ NamedPrimes[j + 2] <= 31
                /\ nm.F.commas[j] = NamedFromRatio(DefaultCommas[j])

\* the default namer was made; the comma of 11 is 33/32 and the one of 5 a
\* halved one
C16_Witness ==
    /\ nm.op = "fjs" /\ nm.F.st = "ok" /\ nm.F.tol = Fraction(65, 63)
    /\ nm.F.commas[3] = <<RInt(-5), RInt(1), RZero, RZero, RInt(1)>>
    /\ nm.F.commas[1] = <<RInt(4), RInt(-4), RInt(1)>>

\* the name that was made is the one of the Pythagorean monzo 2^x * 3^y
\* and its plain text is t
NamedAs(x, y, t) ==
    nm.op = "name" /\ nm.m = StripTrailing(<<RInt(x), RInt(y)>>) /\ nm.spec = "" => nm.text = t

\* C17: for every Pythagorean monzo 2^a * 3^b the variant of the name has
\* the magnitude 0 for |b| <= 1, 1 for 2 <= |b| <= 5 and (|b| + 8) div 7
\* otherwise; the 0-based degree is the table degree of b mod 7 extended by
\* the octave count; the text is P, m, M or repeated d or A, then '-' for a
\* negative degree, then |degree| + 1; 9/8 is M2, 2/1 is P8, 1/2 is P-8,
\* 2187/2048 is A1 and 531441/524288 is d-2
C17_PythagoreanNames ==
    /\ nm.op = "name" /\ Len(nm.m) <= 2 =>
        /\ nm.name.st = "ok"
        /\ Abs(nm.name.variant) =
            (IF Abs(entry_at(nm.m, 1)) <= 1 THEN 0
             ELSE IF Abs(entry_at(nm.m, 1)) <= 5 THEN 1
             ELSE (Abs(entry_at(nm.m, 1)) + 8) \div 7)
        /\ nm.name.degree =
            <<0, 4, 1, 5, 2, 6, 3>>[(entry_at(nm.m, 1) % 7) + 1]
            + 7 * OctaveCount(entry_at(nm.m, 0), entry_at(nm.m, 1))
        /\ nm.spec = "" =>
            /\ nm.st = "ok"
            /\ nm.text =
                (IF nm.name.variant = 0 THEN "P"
                 ELSE IF nm.name.variant = -1 THEN "m"
                 ELSE IF nm.name.variant = 1 THEN "M"
                 ELSE IF nm.name.variant = -2 THEN "d"
                 ELSE IF nm.name.variant = 2 THEN "A"
                 ELSE IF nm.name.variant = -3 THEN "dd"
                 ELSE IF nm.name.variant = 3 THEN "AA"
                 ELSE IF nm.name.variant < 0 THEN "ddd" ELSE "AAA")
                \o (IF nm.name.degree < 0 THEN "-" ELSE "")
                \o ToString(Abs(nm.name.degree) + 1)
    /\ NamedAs(-3, 2, "M2")
    /\ NamedAs(1, 0, "P8")
    /\ NamedAs(-1, 0, "P-8")
    /\ NamedAs(-11, 7, "A1")
    /\ NamedAs(-19, 12, "d-2")

\* 531441/524288 was named d-2
C17_Witness ==
    /\ nm.op = "name" /\ nm.spec = "" /\ nm.st = "ok"
    /\ nm.m = <<RInt(-19), RInt(12)>>
    /\ nm.name.variant = -2 /\ nm.name.degree = -1
    /\ nm.text = "d-2"

---------------------------------------------------------------------------
(* Colour names: xenterval/interval/name/color.py over xenterval/_common.py *)

\* the length of _common.KNOWN_PRIMES: the registry of _common.py holds the
\* first 50 primes, a proper prefix of the 100 of _primes.py
NumCommon == 2

\* _common.KNOWN_PRIMES
COMMON_PRIMES == SubSeq(AllPrimes, 1, NumCommon)

\* the public attributes of class Interval
IntervalAttributes ==
    {"factorization", "ratio", "edx_steps", "cents", "zero", "from_edx_steps", "stack",
     "multiply", "stretch_factor", "inverse", "modulo", "divmod", "compare",
     "approximate_in_edx", "ratio_convergents", "edx_convergents"}

degrees_24edo ==
    <<0, 1, 1, 1, 1, 2, 2, 2, 2, 3, 3, 3, 4, 4, 4, 5, 5, 5, 5, 6, 6, 6, 6, 7>>

\* an octave in fine units
FinePerOctave == CentsPerOctave * FinePerCent

\* the body of gen for the prime p, the cents being the ones of the ratio p
StepsOfPrime(p) ==
    degrees_24edo[((LogPrime(p) % FinePerOctave) * 24) \div FinePerOctave + 1]
    + (LogPrime(p) \div FinePerOctave) * 7

\* color_val(): gen asks for Interval.from_ratio at its first prime
color_val ==
    IF Len(COMMON_PRIMES) > 0 /\ "from_ratio" \notin IntervalAttributes
    THEN [st |-> "AttributeError", val |-> <<>>]
    ELSE [st |-> "ok", val |-> [i \in 1..Len(COMMON_PRIMES) |-> StepsOfPrime(COMMON_PRIMES[i])]]

\* str(n).translate(_SUP_TRANSLATION) for n >= 0, the superscript of the
\* digit d written "^d"
RECURSIVE Superscript(_)
Superscript(n) ==
    IF n < 10 THEN "^" \o ToString(n)
    ELSE Superscript(n \div 10) \o Superscript(n % 10)

\* multiplied(s, n) for s = head + last, last being the last character of s
multiplied(head, last, n) ==
    IF Abs(n) < 2 THEN Times(head \o last, Abs(n))
    ELSE IF Abs(n) = 2 THEN head \o last \o last
    ELSE head \o last \o Superscript(Abs(n))

\* _data[p][mode], or str(p) + ('o', 'u')[mode], as <<head, last>>
ColorToken(p, mode) ==
    IF p = 5 THEN <<"", <<"y", "g">>[mode + 1]>>
    ELSE IF p = 7 THEN <<"", <<"z", "r">>[mode + 1]>>
    ELSE IF p = 11 THEN <<"1", <<"o", "u">>[mode + 1]>>
    ELSE IF p = 13 THEN <<"3", <<"o", "u">>[mode + 1]>>
    ELSE <<ToString(p), <<"o", "u">>[mode + 1]>>

\* primary(p, x)
primary(p, x) ==
    multiplied(ColorToken(p, IF x > 0 THEN 0 ELSE 1)[1],
               ColorToken(p, IF x > 0 THEN 0 ELSE 1)[2], x)

\* sum(e1 * e2 for e1, e2 in zip(m.entries, val)), from the i-th pair on
RECURSIVE StepspanFrom(_, _, _)
StepspanFrom(m, val, i) ==
    IF i > Len(m) \/ i > Len(val) THEN 0
    ELSE m[i][1] * val[i] + StepspanFrom(m, val, i + 1)

\* sum(m.entries[i - 1:])
RECURSIVE SumFrom(_, _)
SumFrom(m, i) == IF i > Len(m) THEN 0 ELSE m[i][1] + SumFrom(m, i + 1)

\* octaves and degree of the stepspan, taken without its sign
OctavesDegree(stepspan) ==
    IF (7 <= stepspan /\ stepspan <= 9) \/ stepspan = 15
    THEN <<stepspan \div 7 - 1, (stepspan % 7) + 7 + 1>>
    ELSE <<stepspan \div 7, (stepspan % 7) + 1>>

\* the segments of the color chunks: reversed(m.primes_exponents(2)), from
\* the i-th entry down
RECURSIVE ChunkSegments(_, _)
ChunkSegments(m, i) ==
    IF i < 3 THEN ""
    ELSE (IF m[i][1] # 0 THEN primary(KNOWN_PRIMES[i], m[i][1]) ELSE "")
         \o ChunkSegments(m, i - 1)

\* ''.join(segments)
ColorSegments(m, negative, od, magnitude) ==
    multiplied("", IF magnitude > 0 THEN "L" ELSE "s", magnitude)
    \o multiplied("", "c", od[1])
    \o (IF \A i \in 3..Len(m) : m[i][1] = 0 THEN "w" ELSE ChunkSegments(m, Len(m)))
    \o (IF negative THEN "-" ELSE "")
    \o ToString(od[2])

\* color_name after stepspan is summed
ColorOfStepspan(m, stepspan) ==
    [st |-> "ok", degree |-> OctavesDegree(Abs(stepspan))[2],
     octaves |-> OctavesDegree(Abs(stepspan))[1],
     text |-> ColorSegments(m, stepspan < 0, OctavesDegree(Abs(stepspan)),
                            RoundDiv(SumFrom(m, 2), 7)),
     stepspan |-> stepspan]

\* color_name, given the outcome of color_val()
ColorNameWith(cv, m) ==
    IF cv.st # "ok"
    THEN [st |-> cv.st, degree |-> 0, octaves |-> 0, text |-> "", stepspan |-> 0]
    ELSE ColorOfStepspan(m, StepspanFrom(m, cv.val, 1))

\* color_name
color_name(m) == ColorNameWith(color_val, m)

---------------------------------------------------------------------------
(* A session with the colour names: the table is asked for, or one monzo
   is named *)

ColorArgs == {StripTrailing(t) : t \in IntTuples(Len(KNOWN_PRIMES))}

Colored(op, m, cv, res) == [m |-> m, op |-> op, val |-> cv, res |-> res]

NoColor == [st |-> "none", degree |-> 0, octaves |-> 0, text |-> "", stepspan |-> 0]

InitColor ==
    /\ a = Zero
    /\ b = Zero
    /\ out = Out("none", "ok", NoScalar, NoScalar, Zero, 0, NoSteps, <<0, 0>>)
    /\ mz = <<>>
    /\ grp = <<>>
    /\ cf = <<>>
    /\ nm = Colored("none", <<>>, [st |-> "none", val |-> <<>>], NoColor)
    /\ ix = <<>>

\* color_val()
AskColorVal ==
    /\ nm.op = "none"
    /\ nm' = Colored("color_val", <<>>, color_val, NoColor)
    /\ UNCHANGED <<a, b, out, mz, grp, cf, ix>>

\* color_name(m)
AskColorName ==
    /\ nm.op = "none"
    /\ \E m \in ColorArgs : nm' = Colored("color_name", m, color_val, color_name(m))
    /\ UNCHANGED <<a, b, out, mz, grp, cf, ix>>

NextColor == AskColorVal \/ AskColorName

SpecColor == InitColor /\ [][NextColor]_vars

\* C18: for every all-integer monzo color_name returns a string; with T the
\* absolute stepspan, the octave count c and the degree d satisfy
\* 7 * c + (d - 1) = T with c >= 0 and d in 1..7, except for T in
\* {7, 8, 9, 15}, where c is T div 7 - 1 and d is in 8..10
C18_ColorNameReturns ==
    nm.op = "color_name" =>
        /\ nm.res.st = "ok"
        /\ 7 * nm.res.octaves + (nm.res.degree - 1) = Abs(nm.res.stepspan)
        /\ nm.res.octaves >= 0
        /\ IF Abs(nm.res.stepspan) \in {7, 8, 9, 15}
           THEN /\ nm.res.octaves = Abs(nm.res.stepspan) \div 7 - 1
                /\ nm.res.degree \in 8..10
           ELSE nm.res.degree \in 1..7

\* C19: the table of stepspans has one entry for every prime of the registry
\* that Monzo uses, so that every nonzero exponent adds to the stepspan
C19_TableCoversRegistry ==
    nm.op \in {"color_val", "color_name"} =>
        /\ nm.val.st = "ok"
        /\ Len(nm.val.val) = Len(KNOWN_PRIMES)

---------------------------------------------------------------------------
(* prime_index: xenterval/_primes.py and xenterval/_common.py *)

\* the integers asked for are -MaxIndexArg..MaxIndexArg
MaxIndexArg == 40

\* bisect_left(ps, p) for an ascending ps: the number of its elements below p
bisect_left(ps, p) == Cardinality({i \in 1..Len(ps) : ps[i] < p})

IndexOk(index) == [r |-> index, st |-> "ok"]
IndexRaise(e) == [r |-> 0, st |-> e]

\* _primes.prime_index after bisect_left
PrimeIndexAt(index, p) ==
    IF index < Len(KNOWN_PRIMES) /\ KNOWN_PRIMES[index + 1] = p THEN IndexOk(index)
    ELSE IndexRaise("ValueError")

\* _primes.prime_index
prime_index(p) == PrimeIndexAt(bisect_left(KNOWN_PRIMES, p), p)

\* _common.prime_index after bisect_left: KNOWN_PRIMES[index] is read first
CommonPrimeIndexAt(index, p) ==
    IF index >= Len(COMMON_PRIMES) THEN IndexRaise("IndexError")
    ELSE IF COMMON_PRIMES[index + 1] = p THEN IndexOk(index)
    ELSE IndexRaise("ValueError")

\* _common.prime_index
common_prime_index(p) == CommonPrimeIndexAt(bisect_left(COMMON_PRIMES, p), p)

IndexArgs == -MaxIndexArg..MaxIndexArg

Indexed(impl, x, res) == [x |-> x, r |-> res.r, st |-> res.st, op |-> "prime_index", impl |-> impl]

InitIndex ==
    /\ a = Zero
    /\ b = Zero
    /\ out = Out("none", "ok", NoScalar, NoScalar, Zero, 0, NoSteps, <<0, 0>>)
    /\ mz = <<>>
    /\ grp = <<>>
    /\ cf = <<>>
    /\ nm = <<>>
    /\ ix = [x |-> 0, r |-> 0, st |-> "ok", op |-> "none", impl |-> ""]

\* _primes.prime_index(x)
AskPrimeIndex ==
    /\ ix.op = "none"
    /\ \E x \in IndexArgs : ix' = Indexed("_primes", x, prime_index(x))
    /\ UNCHANGED <<a, b, out, mz, grp, cf, nm>>

\* _common.prime_index(x)
AskCommonPrimeIndex ==
    /\ ix.op = "none"
    /\ \E x \in IndexArgs : ix' = Indexed("_common", x, common_prime_index(x))
    /\ UNCHANGED <<a, b, out, mz, grp, cf, nm>>

NextIndex == AskPrimeIndex \/ AskCommonPrimeIndex

SpecIndex == InitIndex /\ [][NextIndex]_vars

\* the registry of the implementation that was asked
RegistryOf(impl) == IF impl = "_primes" THEN KNOWN_PRIMES ELSE COMMON_PRIMES

\* C20: in both implementations prime_index(x) returns the position i with
\* KNOWN_PRIMES[i] = x for an x of the registry, and raises ValueError, no
\* other kind of exception, for every integer that is not in the registry
C20_PrimeIndexOrValueError ==
    ix.op = "prime_index" =>
        IF \E i \in 1..Len(RegistryOf(ix.impl)) : RegistryOf(ix.impl)[i] = ix.x
        THEN ix.st = "ok" /\ RegistryOf(ix.impl)[ix.r + 1] = ix.x
        ELSE ix.st = "ValueError"

---------------------------------------------------------------------------
(* A session with prime_factors: one int or Fraction is factorized *)

FactorArgs == {Fraction(n, d) : n \in -MaxRatio..MaxRatio, d \in 1..MaxRatio}

Factored(ratio, pf) == [x |-> ratio, st |-> pf.st, fact |-> pf.fact, op |-> "prime_factors"]

InitFactors ==
    /\ a = Zero
    /\ b = Zero
    /\ out = Out("none", "ok", NoScalar, NoScalar, Zero, 0, NoSteps, <<0, 0>>)
    /\ mz = <<>>
    /\ grp = <<>>
    /\ cf = <<>>
    /\ nm = <<>>
    /\ ix = [x |-> ROne, st |-> "ok", fact |-> EmptyFact, op |-> "none"]

\* prime_factors(ratio)
AskPrimeFactors ==
    /\ ix.op = "none"
    /\ \E ratio \in FactorArgs : ix' = Factored(ratio, prime_factors(ratio))
    /\ UNCHANGED <<a, b, out, mz, grp, cf, nm>>

NextFactors == AskPrimeFactors

SpecFactors == InitFactors /\ [][NextFactors]_vars

\* n has a prime factor that is not in the registry
HasPrimeOutside(n) ==
    \E q \in 2..n :
        /\ n % q = 0
        /\ \A t \in 2..(q - 1) : q % t # 0
        /\ q \notin PrimeSet

\* the product of p ** f[p] over the keys of f
RECURSIVE ProductOf(_)
ProductOf(f) ==
    IF DOMAIN f = {} THEN ROne
    ELSE RMul(PowInt(CHOOSE p \in DOMAIN f : TRUE, f[CHOOSE p \in DOMAIN f : TRUE][1]),
              ProductOf(Without(f, CHOOSE p \in DOMAIN f : TRUE)))

\* C21: prime_factors(r) fails exactly when r <= 0 or the numerator or the
\* denominator of r in lowest terms has a prime factor outside the registry;
\* otherwise it returns a mapping without zero exponents, with primes of the
\* registry as its only keys, whose product of prime ** exponent is r; the
\* mapping is empty for r = 1
C21_PrimeFactorsExactly ==
    ix.op = "prime_factors" =>
        /\ ix.st # "ok" <=>
            (ix.x[1] <= 0 \/ HasPrimeOutside(ix.x[1]) \/ HasPrimeOutside(ix.x[2]))
        /\ ix.st = "ok" =>
            /\ \A p \in DOMAIN ix.fact : ix.fact[p] # RZero /\ RIsInt(ix.fact[p])
            /\ DOMAIN ix.fact \subseteq PrimeSet
            /\ ProductOf(ix.fact) = ix.x
            /\ ix.x = ROne => ix.fact = EmptyFact

\* a ratio with primes on both sides, one of the registry missing, was
\* factorized
C21_Witness ==
    /\ ix.op = "prime_factors" /\ ix.st = "ok"
    /\ ix.x = Fraction(10, 9)
    /\ DOMAIN ix.fact = {2, 3, 5} /\ ix.fact[3] = RInt(-2)

---------------------------------------------------------------------------
(* Monzo.__eq__, __ne__ and __hash__: one comparison per session *)

\* the right-hand operand: a Monzo, or a value that is none (the tuple of the
\* entries itself)
AMonzo(m) == [entries |-> m, monzo |-> TRUE]
NoMonzo(t) == [entries |-> t, monzo |-> FALSE]

\* Monzo.__eq__
monzo_eq(m, other) ==
    IF other.monzo
    THEN extended_entries(m, Len(other.entries)) = extended_entries(other.entries, Len(m))
    ELSE FALSE

\* Monzo.__ne__
monzo_ne(m, other) ==
    IF other.monzo
    THEN extended_entries(m, Len(other.entries)) # extended_entries(other.entries, Len(m))
    ELSE FALSE

\* Monzo.__hash__: hash(self._entries), a function of the stripped entries
\* alone, kept as the tuple it is computed from
monzo_hash(m) == m

\* the constructor arguments of the two operands, trailing zeros among them
EqArgs == EntryTuples(2)

Operands ==
    {AMonzo(MonzoInit(t).m) : t \in EqArgs} \cup {NoMonzo(t) : t \in EqArgs}

EqOut(op, m, other, eq, ne, hashes) ==
    [m |-> m, op |-> op, other |-> other, eq |-> eq, ne |-> ne, hashes |-> hashes]

InitEq ==
    /\ a = Zero
    /\ b = Zero
    /\ out = Out("none", "ok", NoScalar, NoScalar, Zero, 0, NoSteps, <<0, 0>>)
    /\ mz = EqOut("none", <<>>, AMonzo(<<>>), TRUE, FALSE, <<<<>>, <<>>>>)
    /\ grp = <<>>
    /\ cf = <<>>
    /\ nm = <<>>
    /\ ix = <<>>

\* m == o, m != o, and the hashes of the two when o is a Monzo
AskEquality ==
    /\ mz.op = "none"
    /\ \E t \in EqArgs, o \in Operands :
        mz' = EqOut("compare", MonzoInit(t).m, o, monzo_eq(MonzoInit(t).m, o),
                    monzo_ne(MonzoInit(t).m, o),
                    <<monzo_hash(MonzoInit(t).m),
                      IF o.monzo THEN monzo_hash(o.entries) ELSE <<>>>>)
    /\ UNCHANGED <<a, b, out, grp, cf, nm, ix>>

NextEq == AskEquality

SpecEq == InitEq /\ [][NextEq]_vars

\* C30: (m != o) == not (m == o) for every monzo m and every right-hand
\* operand o, a monzo made with or without trailing zeros or a value that is
\* no Monzo; and monzos that compare equal have equal hashes.
C30_NeIsNotEq ==
    mz.op = "compare" =>
        /\ mz.ne = ~mz.eq
        /\ mz.other.monzo /\ mz.eq => mz.hashes[1] = mz.hashes[2]

---------------------------------------------------------------------------
(* FJS names of inverse monzos *)

\* the monzo with every exponent negated
Negated(m) == [i \in 1..Len(m) |-> RNeg(m[i])]

\* C29: for every all-integer monzo m named (variant v, degree d, otonal O,
\* utonal U), the name of the inverse monzo has degree -d, otonal U and
\* utonal O, and its variant is v when d # 0 and -v when d = 0.
C29_NameOfInverse ==
    nm.op = "name" /\ nm.name.st = "ok" =>
        /\ name(nm.F, Negated(nm.m)).st = "ok"
        /\ name(nm.F, Negated(nm.m)).degree = -nm.name.degree
        /\ name(nm.F, Negated(nm.m)).otonal = nm.name.utonal
        /\ name(nm.F, Negated(nm.m)).utonal = nm.name.otonal
        /\ name(nm.F, Negated(nm.m)).variant =
               IF nm.name.degree # 0 THEN nm.name.variant ELSE -nm.name.variant

\* a monzo with commas on both sides was named a descending interval with a
\* variant, so its inverse ascends with the same variant and the commas swapped
C29_Witness ==
    /\ nm.op = "name" /\ nm.name.st = "ok"
    /\ nm.name.degree < 0 /\ nm.name.variant # 0
    /\ nm.name.otonal # <<>> /\ nm.name.utonal # <<>>
    /\ name(nm.F, Negated(nm.m)).degree > 0
    /\ name(nm.F, Negated(nm.m)).variant = nm.name.variant

---------------------------------------------------------------------------
(* Interval.ratio_convergents: a generator over convergents(self.ratio), one
   action for each next() of the consumer *)

\* self.ratio of an interval whose exponents are whole numbers: an int or a
\* Fraction
ExactRatio(x) == ProductOf(x.fact)

\* float(c) for a convergent c as the constructor reads it: 0.0, a float that
\* is a multiple of 1 / MAGIC and is made a Fraction again (which rounding may
\* prevent when c is no whole number), or another float
FloatOfConvergent(c) ==
    IF c = RZero THEN {SpecialVal("fzero")}
    ELSE IF RIsInt(c) THEN {RatVal(c)}
    ELSE IF RIsInt(RMul(c, RInt(MAGIC))) THEN {RatVal(c), FloatVal(LogRat(c), 0)}
    ELSE {FloatVal(LogRat(c), 0)}

\* Interval(ratio=float(c)) - self
ErrorOfConvergent(x, c) ==
    UNION {IF o.st = "ok" THEN Minus(o.iv, x) ELSE {o}
           : o \in UNION {InitRatio(r) : r \in FloatOfConvergent(c)}}

\* the intervals of the ratios n / d that the registry factors
RationalIntervals ==
    {o.iv : o \in {c \in UNION {InitRatio(RatVal(Fraction(n, d)))
                                : n \in 1..MaxRatio, d \in 1..MaxRatio} : c.st = "ok"}}

InitRatioConv ==
    /\ a \in RationalIntervals
    /\ b = Zero
    /\ out = Out("none", "ok", NoScalar, NoScalar, Zero, 0, NoSteps, <<0, 0>>)
    /\ mz = <<>>
    /\ grp = <<>>
    /\ cf = NewFrame(ConvFrac(ExactRatio(a)))
    /\ nm = <<>>
    /\ ix = <<>>

\* the body of the for loop for the frame f of convergents after its next():
\* the pair is yielded, or the constructor raises and the generator is over
YieldPair(f) ==
    IF f.st # "yielded"
    THEN cf' = f /\ UNCHANGED out
    ELSE \E e \in ErrorOfConvergent(a, f.yielded[Len(f.yielded)]) :
             /\ cf' = IF e.st = "ok" THEN f ELSE Ended(f, e.st)
             /\ out' = Out("ratio_convergents", e.st, NoScalar, NoScalar, e.iv, 0, NoSteps,
                           <<0, 0>>)

RatioConvStart ==
    /\ cf.st = "new"
    /\ YieldPair(ConvFirst(cf, AsFraction(cf.x)))
    /\ UNCHANGED <<a, b, mz, grp, nm, ix>>

RatioConvNext ==
    /\ cf.st = "yielded"
    /\ YieldPair(ConvAgain(cf))
    /\ UNCHANGED <<a, b, mz, grp, nm, ix>>

NextRatioConv == RatioConvStart \/ RatioConvNext

SpecRatioConv == InitRatioConv /\ [][NextRatioConv]_vars

\* C26: x.ratio_convergents() yields a pair (c, error) for every convergent c
\* of x.ratio and never raises, also when x.ratio is below 1 and the first
\* convergent is 0; the error is Interval(ratio=float(c)) - x.
C26_RatioConvergentsYield ==
    /\ cf.st \in {"new", "yielded", "done"}
    /\ cf.st = "yielded" =>
        /\ out.op = "ratio_convergents" /\ out.st = "ok"
        /\ Ok(out.iv) \in ErrorOfConvergent(a, cf.yielded[Len(cf.yielded)])
    /\ cf.st = "done" => cf.yielded[Len(cf.yielded)] = ExactRatio(a)

---------------------------------------------------------------------------
(* Interval: approximations, stretch factors, division, the constructor's
   keywords: one call per session *)

\* the intervals the constructors make of their arguments
Constructed ==
    {o.iv : o \in {c \in UNION ({InitFactorization(f) : f \in FactInputs}
                                \cup {InitCents(c) : c \in CentsInputs}
                                \cup {InitRatio(r) : r \in RatioInputs}) : c.st = "ok"}}

RoundOk(s) == [st |-> "ok", s |-> s]
RoundRaise(e) == [st |-> e, s |-> 0]

\* round(whole + num / den) of a float: the nearest integer, either neighbour
\* when the float is within rounding of the middle
RoundFloatAt(whole, num, den) ==
    IF 2 * (num % den) < den THEN {RoundOk(whole + num \div den)}
    ELSE IF 2 * (num % den) > den THEN {RoundOk(whole + num \div den + 1)}
    ELSE {RoundOk(whole + num \div den), RoundOk(whole + num \div den + 1)}

\* round((q * lgp + r) / lgp * n) for 0 <= r < lgp
RoundFloatParts(q, r, lgp, n) ==
    RoundFloatAt((n[1] * q) \div n[2], ((n[1] * q) % n[2]) * lgp + n[1] * r, n[2] * lgp)

\* round(lgx / lgp * n) for a float
RoundFloat(lgx, lgp, n) ==
    IF lgp > 0 THEN RoundFloatParts(lgx \div lgp, lgx % lgp, lgp, n)
    ELSE RoundFloatParts((-lgx) \div (-lgp), (-lgx) % (-lgp), -lgp, n)

\* round(steps) for the outcome of edx_steps: an int or Fraction goes to the
\* nearest integer, ties to the even one
RoundSteps(v) ==
    IF v.t = "rat" THEN {RoundOk(RoundDiv(v.q[1], v.q[2]))}
    ELSE IF v.t = "float" THEN RoundFloat(v.lgx, v.lgp, v.n)
    ELSE IF v.t = "inf" THEN {RoundRaise("OverflowError")}
    ELSE {RoundRaise(v.t)}

\* Interval.from_edx_steps for an int or Fraction number of steps, divisions
\* and period: Interval(ratio=period) * (steps / divisions)
from_edx_steps(steps, divisions, period) ==
    UNION {IF p.st = "ok" THEN multiply(p.iv, Scalar(RDiv(steps, divisions))) ELSE {p}
           : p \in InitRatio(RatVal(period))}

Approx(s, e) == [st |-> e.st, iv |-> e.iv, s |-> s]

\* approx - self for each outcome of from_edx_steps
ErrorsOf(x, s, approxs) ==
    UNION {IF ap.st = "ok" THEN {Approx(s, e) : e \in Minus(ap.iv, x)}
           ELSE {Approx(s, ap)} : ap \in approxs}

\* approximate_in_edx
approximate_in_edx(x, divisions, period) ==
    UNION {IF r.st = "ok"
           THEN ErrorsOf(x, r.s, from_edx_steps(RInt(r.s), divisions, period))
           ELSE {Approx(0, Raise(r.st))}
           : r \in RoundSteps(edx_steps(x, divisions, period))}

\* one call on the interval x (and y), which become a and b
Single(x, y, op, st, k, k2, iv, q, val) ==
    /\ out.op = "none"
    /\ a' = x
    /\ b' = y
    /\ out' = Out(op, st, k, k2, iv, q, val, <<0, 0>>)
    /\ UNCHANGED <<mz, grp, cf, nm, ix>>

AskApproximate ==
    \E x \in Constructed, n \in Divisions, P \in Periods :
        \E r \in approximate_in_edx(x, n, P) :
            Single(x, Zero, "approximate_in_edx", r.st, Scalar(n), Scalar(P), r.iv, r.s,
                  edx_steps(x, n, P))

\* abs(x)
AbsOf(x) == IF RatioSign(Ratio(x)) > 0 THEN {Ok(x)} ELSE inverse(x)

\* 2 * |s - q| <= 1 for a Fraction q
NearestTo(s, q) == Abs(2 * (s * q[2] - q[1])) <= q[2]

\* C22: x.approximate_in_edx(n, P) returns (s, e) for every interval x,
\* positive integer n and period P > 1, s is the integer nearest to
\* x.edx_steps(n, P), e is from_edx_steps(s, n, P) - x, and abs(e) is at most
\* half a step, from_edx_steps(1/2, n, P).
C22_ApproximateInEdx ==
    out.op = "approximate_in_edx" /\ RIsInt(out.k.q) /\ out.k.q[1] > 0
        /\ out.k2.q[1] > out.k2.q[2] =>
        /\ out.st = "ok"
        /\ out.val.t = "rat" => NearestTo(out.q, out.val.q)
        /\ out.val.t # "rat" => RoundOk(out.q) \in RoundSteps(out.val)
        /\ \E ap \in from_edx_steps(RInt(out.q), out.k.q, out.k2.q) :
               ap.st = "ok" /\ Ok(out.iv) \in Minus(ap.iv, a)
        /\ \A e \in AbsOf(out.iv), h \in from_edx_steps(Fraction(1, 2), out.k.q, out.k2.q) :
               e.st = "ok" /\ h.st = "ok" /\ compare(e.iv, h.iv).q <= 0

\* math.log(r, base) for the ratios of two intervals: log(r) / log(base), kept
\* as the two logs
LogOfBase(r, base) ==
    IF r.t = "OverflowError" \/ base.t = "OverflowError" THEN StepsRaise("OverflowError")
    ELSE IF r.t = "fzero" \/ base.t = "fzero" THEN StepsRaise("ValueError")
    ELSE IF base.t = "finf"
        THEN IF r.t = "finf" THEN StepsRaise("nan") ELSE StepsFloat(0, 1, ROne)
    ELSE IF base.lg = 0 /\ base.ulp = 0 THEN StepsRaise("ZeroDivisionError")
    ELSE IF r.t = "finf" THEN StepsRaise("inf")
    ELSE StepsFloat(r.lg, base.lg, ROne)

\* the factor of stretch_factor, given the outcome of other._is_multiple_of
StretchOf(x, y, exact_stretch) ==
    IF x.exact /\ exact_stretch.some THEN StepsExact(exact_stretch.k)
    ELSE LogOfBase(Ratio(y), Ratio(x))

\* self.stretch_factor(other)
stretch_factor(x, y) == StretchOf(x, y, IsMultipleOfFact(y, x.fact))

\* self.multiply(f) for a factor that stretch_factor returned: an int or
\* Fraction, or a float (an infinite or undefined power is no ratio)
MultiplyByFactor(x, f) ==
    IF f.t = "rat" THEN multiply(x, Scalar(f.q))
    ELSE IF f.t = "float" THEN multiply(x, FloatScalar(Fraction(f.lgx, f.lgp)))
    ELSE IF f.t \in {"inf", "nan"} THEN {Raise("ValueError")}
    ELSE {Raise(f.t)}

\* i1.multiply(i1.stretch_factor(i2))
AskStretch ==
    \E x \in Constructed, y \in Constructed :
        /\ ~NearUnison(x)
        /\ \E r \in MultiplyByFactor(x, stretch_factor(x, y)) :
               Single(x, y, "stretch_factor", r.st, NoScalar, NoScalar, r.iv, 0,
                      stretch_factor(x, y))

\* C23: i1.multiply(i1.stretch_factor(i2)) == i2 for all intervals i1 and i2,
\* and the factor is the exact rational exponent whenever i1 is exact and i2
\* is an exact rational power of i1, 0 when i2 is the unison.
C23_StretchFactor ==
    out.op = "stretch_factor" =>
        /\ out.st = "ok"
        /\ Same(out.iv, b)
        /\ a.exact /\ b.exact /\ PowersOf(b, a.fact) # {} =>
            /\ out.val.t = "rat"
            /\ out.val.q \in PowersOf(b, a.fact)
            /\ b = Zero => out.val.q = RZero

\* a keyword of the constructor: given with a value, or left at None
Given(v) == [v |-> v, some |-> TRUE]
NotGiven(v) == [v |-> v, some |-> FALSE]

\* _count_nones over the keywords cents and ratio alone
CountNonesOfKeywords(factorization, cents_, ratio) ==
    (IF cents_.some THEN 0 ELSE 1) + (IF ratio.some THEN 0 ELSE 1)

\* _count_nones(factorization, cents, ratio)
count_nones(factorization, cents_, ratio) ==
    (IF factorization.some THEN 0 ELSE 1) + (IF cents_.some THEN 0 ELSE 1)
    + (IF ratio.some THEN 0 ELSE 1)

\* Interval(factorization, cents=..., ratio=...): with no branch taken, fact
\* is not bound when it is read
IntervalInit(factorization, cents_, ratio) ==
    IF count_nones(factorization, cents_, ratio) # 2 THEN {Raise("ValueError")}
    ELSE IF factorization.some THEN InitFactorization(factorization.v)
    ELSE IF ratio.some THEN InitRatio(ratio.v)
    ELSE IF cents_.some THEN InitCents(cents_.v)
    ELSE {Raise("UnboundLocalError")}

\* the arguments a call may pass for each keyword
FactKeywords == {NotGiven(EmptyFact)} \cup {Given(f) : f \in FactInputs}
CentsKeywords == {NotGiven(RatVal(RZero))} \cup {Given(c) : c \in CentsInputs}
RatioKeywords == {NotGiven(RatVal(ROne))} \cup {Given(r) : r \in RatioInputs}

\* the keywords a call passes
Passed(factorization, cents_, ratio) ==
    {kw \in {"factorization", "cents", "ratio"} :
        \/ kw = "factorization" /\ factorization.some
        \/ kw = "cents" /\ cents_.some
        \/ kw = "ratio" /\ ratio.some}

\* a constructor call with any of the three keywords
AskInterval ==
    \E f \in FactKeywords, c \in CentsKeywords, r \in RatioKeywords :
        \E o \in IntervalInit(f, c, r) :
            Single(o.iv, Zero, "Interval", o.st, NoScalar, NoScalar, o.iv,
                   Cardinality(Passed(f, c, r)), NoSteps)

\* C24: constructing an Interval succeeds only when exactly one of
\* factorization, cents and ratio is given; with none, two or all three of
\* them the constructor raises ValueError.
C24_OneKeyword ==
    out.op = "Interval" =>
        /\ out.st = "ok" => out.q = 1
        /\ out.q # 1 => out.st = "ValueError"

\* a call passed two keywords and was refused
C24_Witness == out.op = "Interval" /\ out.q = 2 /\ out.st = "ValueError"

\* x.multiply(k).stack(x.multiply(k2)), given the first product
StackOfProducts(x, first, k2) ==
    UNION {IF m.st = "ok" THEN stack(first, m.iv) ELSE {m} : m \in multiply(x, k2)}

\* the scalars of the two products: some of them cancel
DistScalars == RatScalars \cup {Scalar(Fraction(-1, 2))}

\* x.multiply(k).stack(x.multiply(k2)); the first product becomes b
AskMultiplyStack ==
    \E x \in Constructed, k \in DistScalars, k2 \in DistScalars :
        \E m \in multiply(x, k) :
            IF m.st = "ok"
            THEN \E s \in StackOfProducts(x, m.iv, k2) :
                     Single(x, m.iv, "multiply_stack", s.st, k, k2, s.iv, 0, NoSteps)
            ELSE Single(x, Zero, "multiply_stack", m.st, k, k2, m.iv, 0, NoSteps)

\* C25: for an exact interval x and rational scalars k and k2,
\* x.multiply(k).stack(x.multiply(k2)) is exact with the factorization of
\* x.multiply(k + k2), every exponent of x scaled by k + k2 and the zero
\* exponents dropped; x.multiply(0) is the exact unison.
C25_MultiplyDistributes ==
    out.op = "multiply_stack" /\ a.exact =>
        /\ out.st = "ok" /\ out.iv.exact
        /\ DOMAIN out.iv.fact =
               {p \in DOMAIN a.fact : ScaledAt(a.fact, RAdd(out.k.q, out.k2.q), p) # RZero}
        /\ \A p \in DOMAIN out.iv.fact :
               out.iv.fact[p] = ScaledAt(a.fact, RAdd(out.k.q, out.k2.q), p)
        /\ \A s \in multiply(a, Scalar(RAdd(out.k.q, out.k2.q))) :
               s.st = "ok" /\ s.iv.exact /\ s.iv.fact = out.iv.fact
        /\ out.k.q = RZero => b = Zero

\* the halves of an exact interval, one up and one down, were stacked and
\* every exponent cancelled
C25_Witness ==
    /\ out.op = "multiply_stack" /\ out.st = "ok"
    /\ a.exact /\ a.fact # EmptyFact
    /\ out.k = Scalar(Fraction(1, 2)) /\ out.k2 = Scalar(Fraction(-1, 2))
    /\ b.fact # EmptyFact
    /\ out.iv = Zero

\* self / other for an int other: 1 / other is a float, also when other is 1
TrueDivInt(x, n) ==
    IF n = 0 THEN {Raise("ZeroDivisionError")}
    ELSE multiply(x, FloatScalar(Fraction(1, n)))

\* the ints an interval is divided by
Divisors == {-2, -1, 0, 1, 2, 3}

\* (x / n) * n; the quotient becomes b
AskDivide ==
    \E x \in Constructed, n \in Divisors :
        \E d \in TrueDivInt(x, n) :
            IF d.st = "ok"
            THEN \E m \in multiply(d.iv, Scalar(RInt(n))) :
                     Single(x, d.iv, "truediv", m.st, Scalar(RInt(n)), NoScalar, m.iv, 0,
                            NoSteps)
            ELSE Single(x, Zero, "truediv", d.st, Scalar(RInt(n)), NoScalar, d.iv, 0, NoSteps)

\* C27: for an exact interval x and a nonzero int n, x / n is exact and has
\* the factorization of x.multiply(Fraction(1, n)), and (x / n) * n has the
\* factorization of x.
C27_DivideByInt ==
    out.op = "truediv" /\ a.exact /\ out.k.q # RZero =>
        /\ out.st = "ok"
        /\ b.exact
        /\ \A m \in multiply(a, Scalar(RDiv(ROne, out.k.q))) :
               m.st = "ok" /\ m.iv.fact = b.fact
        /\ out.iv.exact /\ out.iv.fact = a.fact

\* Interval(ratio=r); the argument is kept as out.val
AskRatio ==
    \E r \in RatioInputs :
        \E o \in IntervalInit(NotGiven(EmptyFact), NotGiven(RatVal(RZero)), Given(r)) :
            Single(o.iv, Zero, "Interval_ratio", o.st, NoScalar, NoScalar, o.iv, 1, r)

\* r <= 0 or r is not finite
NoRatio(r) == r.t \in {"fzero", "finf", "fnan"} \/ (r.t = "rat" /\ r.q[1] <= 0)

\* C28: Interval(ratio=r) fails only when r <= 0 or r is not finite; every
\* positive finite int, Fraction and float makes an interval, the floats that
\* are multiples of 1/3600 and the floats whose cents are a whole number
\* included.
C28_RatioConstructs ==
    out.op = "Interval_ratio" => (out.st # "ok" => NoRatio(out.val))

\* a session of one call
NextOps ==
    \/ AskApproximate
    \/ AskStretch
    \/ AskInterval
    \/ AskMultiplyStack
    \/ AskDivide
    \/ AskRatio

SpecOps == Init /\ [][NextOps]_vars

=============================================================================
